---- MODULE Spec2Model ----
(***************************************************************************)
(* Model of the Portainer integration's transport (api.py) and control     *)
(* client (control_api.py): the per-service failure counters and the       *)
(* connectivity flag, the query mutex, the stats semaphore, and the        *)
(* one-shot control POSTs; and of its coordinators (coordinator.py): the   *)
(* inventory tick with its lock and fetch stages, the indices it builds,   *)
(* the per-container stats tick and the CPU arithmetic.                    *)
(***************************************************************************)
EXTENDS Integers, Sequences, FiniteSets, TLC

VARIABLES
    connected,    \* PortainerAPI._connected
    error,        \* PortainerAPI._error
    fail_counts,  \* PortainerAPI._fail_counts (a missing key reads as 0)
    lock,         \* PortainerAPI.lock: the query caller holding it, or NoThread
    stats_sem,    \* PortainerAPI._stats_sem: permits left
    qpc,          \* per query caller: position inside query()
    qarg,         \* per query caller: the (service, method) arguments
    qout,         \* per query caller: what the HTTP request produced
    qret,         \* per query caller: what query() handed back
    swaiting,     \* stats callers blocked on the semaphore
    sinflight,    \* stats callers inside the with-block (request in flight)
    slast,        \* the most recently completed stats call: outcome and result
    cpc,          \* per control caller: position inside _post_action()
    creq,         \* per control caller: the action requested
    cout,         \* per control caller: what the POST produced
    cret,         \* per control caller: what the action handed back
    tick_lock,    \* PortainerCoordinator.lock (asyncio.Lock): TRUE when locked
    tpc,          \* per tick: position inside _async_update_data()
    tloop,        \* per tick: endpoints get_containers' loop has still to visit
    tstages,      \* per tick: the fetch stages this invocation has run, in order
    tqueries,     \* per tick: the services this invocation has queried
    tfound,       \* per tick: the endpoint ids its endpoints stage yielded
    tret,         \* per tick: how _async_update_data() ended
    raw_data,     \* PortainerCoordinator.raw_data
    data,         \* PortainerCoordinator.data, as set from the tick's return value
    last_good,    \* history: what the last tick that ran to its end returned
    arg,          \* the arguments of the function call being evaluated
    result,       \* what that call returned
    entity,       \* a container entity (sensor, switch or restart button)
    sub_last,     \* ContainerStatsCoordinator._last
    sub_last_cpu, \* ContainerStatsCoordinator._last_cpu
    sub_data,     \* ContainerStatsCoordinator.data, as set from the tick's return value
    sub_calls,    \* what get_container_stats met and returned, one entry per stats tick
    sub_alpha,    \* ContainerStatsCoordinator._alpha
    stats_ns,     \* hass.data[DOMAIN][entry_id]["stats_coordinators"], keyed by <<entry_id, key>>
    made,         \* the number of ContainerStatsCoordinator objects constructed so far
    platform_uids,  \* unique ids of the entities the sensor platform holds
    registry_uids,  \* unique ids of this entry's sensors in the entity registry
    created_uids,   \* hass.data[DOMAIN][entry_id]["_created_unique_ids"]
    alias_uids,     \* hass.data[DOMAIN]["_uid_aliases_global"]
    upc,            \* per sensor update handler: position inside _handle_update_controller
    upending,       \* per sensor update handler: the new entities it has still to add
    added,          \* the batches handed to async_add_entities in the latest step
    controls,       \* the restart controls and container switches set up, by unique id
    button_created  \* button.py async_setup_entry: the closure's set `created`

transportVars == <<connected, error, fail_counts>>
queryVars     == <<qpc, qarg, qout, qret>>
statsVars     == <<swaiting, sinflight, slast>>
controlVars   == <<cpc, creq, cout, cret>>
tickVars      == <<tick_lock, tpc, tloop, tstages, tqueries, tfound, tret, raw_data, data, last_good>>
callVars      == <<arg, result>>
setupVars     == <<platform_uids, registry_uids, created_uids, alias_uids,
                   upc, upending, added, controls, button_created>>
entVars       == <<entity, setupVars>>
regVars       == <<stats_ns, made>>
subVars       == <<sub_last, sub_last_cpu, sub_data, sub_calls, sub_alpha, regVars>>
restVars      == <<callVars, entVars, subVars>>
coordVars     == <<tickVars, restVars>>
apiVars       == <<lock, stats_sem, queryVars, statsVars, controlVars>>
vars == <<connected, error, fail_counts, lock, stats_sem,
          qpc, qarg, qout, qret, swaiting, sinflight, slast,
          cpc, creq, cout, cret,
          tick_lock, tpc, tloop, tstages, tqueries, tfound, tret, raw_data, data, last_good,
          arg, result, entity, sub_last, sub_last_cpu, sub_data, sub_calls, sub_alpha,
          stats_ns, made, platform_uids, registry_uids, created_uids, alias_uids,
          upc, upending, added, controls, button_created>>

----------------------------------------------------------------------------
(* Bounds of the model *)

MaxFails == 3
NumQueryCallers == 2
NumStatsCallers == 34
MaxContainers == 3
MaxCpus == 4
MaxSubTicks == 4

(* Program constants *)

STATS_MAX_CONCURRENCY == 32

NoThread == 0

----------------------------------------------------------------------------
(* Values exchanged with the HTTP layer *)

Services == {"endpoints", "stacks", "reporting/get_data"}
Methods  == {"get", "post", "delete"}
Payloads == {"p1", "p2"}

\* A response body: either the encoding of a payload or text that does not parse.
JsonBody(p) == [ok |-> TRUE, val |-> p]
Malformed   == [ok |-> FALSE, val |-> ""]
Bodies      == {JsonBody(p) : p \in Payloads} \cup {Malformed}

ExceptionKinds == {"ConnectTimeout", "ReadTimeout", "SSLError", "ConnectionError",
                   "TooManyRedirects", "ValueError"}

Exc(k)      == [kind |-> "exc", exc |-> k, status |-> 0, body |-> Malformed]
Resp(s, b)  == [kind |-> "resp", exc |-> "", status |-> s, body |-> b]
NoOutcome   == [kind |-> "none", exc |-> "", status |-> 0, body |-> Malformed]

QueryStatuses   == {200, 201, 404, 500}
StatsStatuses   == {200, 404, 409}
ControlStatuses == {199, 200, 204, 299, 300, 500}

QueryOutcomes ==
    {Exc(k) : k \in ExceptionKinds} \cup {Resp(s, b) : s \in QueryStatuses, b \in Bodies}
StatsOutcomes ==
    {Exc(k) : k \in {"ReadTimeout", "ValueError"}}
        \cup {Resp(s, b) : s \in StatsStatuses, b \in {JsonBody("p1"), Malformed}}
ControlOutcomes ==
    {Exc(k) : k \in {"ConnectTimeout", "ValueError"}}
        \cup {Resp(s, Malformed) : s \in ControlStatuses}

\* What a call hands back to its caller.
RetNone     == [kind |-> "none", val |-> ""]
RetData(p)  == [kind |-> "data", val |-> p]
RetBool(b)  == [kind |-> "bool", val |-> IF b THEN "true" ELSE "false"]
RetRaise(k) == [kind |-> "raise", val |-> k]
Pending     == [kind |-> "pending", val |-> ""]

----------------------------------------------------------------------------
(* requests' exception hierarchy, as far as query()'s except clauses tell *)
(* the kinds apart                                                         *)

Ancestors(k) ==
    CASE k = "ConnectTimeout"   -> {"ConnectTimeout", "ConnectionError", "Timeout",
                                    "RequestException", "Exception"}
      [] k = "ReadTimeout"      -> {"ReadTimeout", "Timeout", "RequestException", "Exception"}
      [] k = "SSLError"         -> {"SSLError", "ConnectionError", "RequestException",
                                    "Exception"}
      [] k = "ConnectionError"  -> {"ConnectionError", "RequestException", "Exception"}
      [] k = "TooManyRedirects" -> {"TooManyRedirects", "RequestException", "Exception"}
      [] OTHER                  -> {k, "Exception"}

\* The except clauses of query(), in source order: the first whose classes
\* include an ancestor of the raised kind handles it.
ExceptClausesNoCatchAll ==
    << [classes |-> {"ConnectTimeout", "ReadTimeout"}, code |-> "timeout"],
       [classes |-> {"SSLError"},                      code |-> "ssl_error"],
       [classes |-> {"ConnectionError"},               code |-> "connection_error"],
       [classes |-> {"RequestException"},              code |-> "request_exception"] >>

ExceptClauses ==
    << [classes |-> {"ConnectTimeout", "ReadTimeout"}, code |-> "timeout"],
       [classes |-> {"SSLError"},                      code |-> "ssl_error"],
       [classes |-> {"ConnectionError"},               code |-> "connection_error"],
       [classes |-> {"RequestException"},              code |-> "request_exception"],
       [classes |-> {"Exception"},                     code |-> "unknown_exception"] >>

\* The code of the first matching clause; "raise" when no clause matches and
\* the exception leaves query().
ExceptionCode(k) ==
    LET hits == {i \in DOMAIN ExceptClauses :
                    ExceptClauses[i].classes \cap Ancestors(k) # {}}
    IN  IF hits = {} THEN "raise"
        ELSE ExceptClauses[CHOOSE i \in hits : \A j \in hits : i <= j].code

----------------------------------------------------------------------------
(* PortainerAPI: the connectivity bookkeeping *)

QueryCallers   == 1..NumQueryCallers
ControlCallers == {1}

\* _record_success
record_success_keeps_count(service) ==
    /\ fail_counts' = fail_counts
    /\ error' = ""
    /\ connected' = TRUE

\* A slip: a success wipes every service's counter.
record_success_clears_all(service) ==
    /\ fail_counts' = [s \in DOMAIN fail_counts |-> 0]
    /\ error' = ""
    /\ connected' = TRUE

record_success(service) ==
    /\ fail_counts' = [fail_counts EXCEPT ![service] = 0]
    /\ error' = ""
    /\ connected' = TRUE

\* _record_failure, with three plausible slips of it
record_failure_first_blip(service, code) ==
    /\ fail_counts' = [fail_counts EXCEPT ![service] = @ + 1]
    /\ error' = code
    /\ connected' = IF service # "reporting/get_data" /\ fail_counts'[service] >= 1
                    THEN FALSE ELSE connected

record_failure_no_exemption(service, code) ==
    /\ fail_counts' = [fail_counts EXCEPT ![service] = @ + 1]
    /\ error' = code
    /\ connected' = IF fail_counts'[service] >= 2 THEN FALSE ELSE connected

record_failure_total_count(service, code) ==
    /\ fail_counts' = [fail_counts EXCEPT ![service] = @ + 1]
    /\ error' = code
    /\ connected' = IF /\ service # "reporting/get_data"
                       /\ \E s \in DOMAIN fail_counts :
                             s # service /\ fail_counts'[s] + fail_counts'[service] >= 2
                    THEN FALSE ELSE connected

record_failure(service, code) ==
    /\ fail_counts' = [fail_counts EXCEPT ![service] = @ + 1]
    /\ error' = code
    /\ connected' =
         IF service = "endpoints"
         THEN (IF fail_counts'[service] >= 2 THEN FALSE ELSE connected)
         ELSE IF service # "reporting/get_data"
              THEN (IF fail_counts'[service] >= 2 THEN FALSE ELSE connected)
              ELSE connected

----------------------------------------------------------------------------
(* PortainerAPI.query *)

\* A slip: a 200 counts as success before its body is parsed.
QuerySucceedsUnparsed(out) == out.kind = "resp" /\ out.status = 200

\* resp.status_code == 200 and resp.json() parses
QuerySucceeds(out) == out.kind = "resp" /\ out.status = 200 /\ out.body.ok

\* The error code query() records for an outcome that is not a success
\* ("raise": the exception is not handled and leaves query()).
FailureCode(out) ==
    IF out.kind = "exc" THEN ExceptionCode(out.exc)
    ELSE IF out.status = 200 THEN "invalid_json"
    ELSE ToString(out.status)

\* query(service, method, params) is called and reaches `with self.lock`.
QueryCall(t, service, method) ==
    /\ qpc[t] = "idle"
    /\ qpc' = [qpc EXCEPT ![t] = "waiting"]
    /\ qarg' = [qarg EXCEPT ![t] = [service |-> service, method |-> method]]
    /\ qout' = [qout EXCEPT ![t] = NoOutcome]
    /\ qret' = [qret EXCEPT ![t] = Pending]
    /\ UNCHANGED <<transportVars, lock, stats_sem, statsVars, controlVars, coordVars>>

\* `with self.lock` entered without taking the mutex
QueryAcquireNoMutex(t) ==
    /\ qpc[t] = "waiting"
    /\ lock' = t
    /\ qpc' = [qpc EXCEPT ![t] = "locked"]
    /\ UNCHANGED <<transportVars, stats_sem, qarg, qout, qret, statsVars, controlVars, coordVars>>

\* `with self.lock`: blocks until the mutex is free, then holds it.
QueryAcquire(t) ==
    /\ qpc[t] = "waiting"
    /\ lock = NoThread
    /\ lock' = t
    /\ qpc' = [qpc EXCEPT ![t] = "locked"]
    /\ UNCHANGED <<transportVars, stats_sem, qarg, qout, qret, statsVars, controlVars, coordVars>>

\* method is "get" or "post": the request goes out.
QuerySend(t) ==
    /\ qpc[t] = "locked"
    /\ qarg[t].method \in {"get", "post"}
    /\ qpc' = [qpc EXCEPT ![t] = "request"]
    /\ UNCHANGED <<transportVars, lock, stats_sem, qarg, qout, qret, statsVars, controlVars, coordVars>>

\* any other method: warn, return None; leaving the with-block frees the mutex.
QueryUnsupported(t) ==
    /\ qpc[t] = "locked"
    /\ qarg[t].method \notin {"get", "post"}
    /\ qpc' = [qpc EXCEPT ![t] = "returned"]
    /\ qret' = [qret EXCEPT ![t] = RetNone]
    /\ lock' = IF lock = t THEN NoThread ELSE lock
    /\ UNCHANGED <<transportVars, stats_sem, qarg, qout, statsVars, controlVars, coordVars>>

\* The request ends with outcome `out`; query() classifies it, updates the
\* bookkeeping and returns; leaving the with-block frees the mutex.
QueryRespond(t, out) ==
    /\ qpc[t] = "request"
    /\ (~QuerySucceeds(out) /\ FailureCode(out) # "raise")
          => fail_counts[qarg[t].service] < MaxFails
    /\ qout' = [qout EXCEPT ![t] = out]
    /\ IF QuerySucceeds(out)
       THEN /\ record_success(qarg[t].service)
            /\ qret' = [qret EXCEPT ![t] = RetData(out.body.val)]
       ELSE IF FailureCode(out) = "raise"
       THEN /\ UNCHANGED transportVars
            /\ qret' = [qret EXCEPT ![t] = RetRaise(out.exc)]
       ELSE /\ record_failure(qarg[t].service, FailureCode(out))
            /\ qret' = [qret EXCEPT ![t] = RetNone]
    /\ qpc' = [qpc EXCEPT ![t] = "returned"]
    /\ lock' = IF lock = t THEN NoThread ELSE lock
    /\ UNCHANGED <<stats_sem, qarg, statsVars, controlVars, coordVars>>

\* The caller has taken the result; it may call again.
QueryReturn(t) ==
    /\ qpc[t] = "returned"
    /\ qpc' = [qpc EXCEPT ![t] = "idle"]
    /\ qarg' = [qarg EXCEPT ![t] = [service |-> "", method |-> ""]]
    /\ qout' = [qout EXCEPT ![t] = NoOutcome]
    /\ qret' = [qret EXCEPT ![t] = Pending]
    /\ UNCHANGED <<transportVars, lock, stats_sem, statsVars, controlVars, coordVars>>

----------------------------------------------------------------------------
(* PortainerAPI.get_container_stats *)

\* What get_container_stats returns: the decoded body of a 200 response,
\* None for everything else (non-200, a body that does not parse, any exception).
stats_result(out) ==
    IF out.kind = "resp" /\ out.status = 200 /\ out.body.ok
    THEN RetData(out.body.val)
    ELSE RetNone

\* A slip: the stats path marks the connection down when it gets no data.
stats_bookkeeping_marks_down(out) ==
    /\ connected' = (connected /\ stats_result(out) # RetNone)
    /\ UNCHANGED <<error, fail_counts>>

\* The stats path only logs: it never calls _record_success/_record_failure.
stats_bookkeeping(out) ==
    UNCHANGED <<connected, error, fail_counts>>

\* get_container_stats is called and reaches `with self._stats_sem`.
StatsCall ==
    /\ swaiting + sinflight < NumStatsCallers
    /\ swaiting' = swaiting + 1
    /\ UNCHANGED <<transportVars, lock, stats_sem, sinflight, slast, queryVars, controlVars, coordVars>>

\* A slip: the with-block is entered without waiting for a permit.
StatsAcquireNoGate ==
    /\ swaiting > 0
    /\ stats_sem' = IF stats_sem > 0 THEN stats_sem - 1 ELSE 0
    /\ swaiting' = swaiting - 1
    /\ sinflight' = sinflight + 1
    /\ UNCHANGED <<transportVars, lock, slast, queryVars, controlVars, coordVars>>

\* `with self._stats_sem`: blocks until a permit is free, then takes one.
StatsAcquire ==
    /\ swaiting > 0
    /\ stats_sem > 0
    /\ stats_sem' = stats_sem - 1
    /\ swaiting' = swaiting - 1
    /\ sinflight' = sinflight + 1
    /\ UNCHANGED <<transportVars, lock, slast, queryVars, controlVars, coordVars>>

\* The stats request ends with outcome `out`; the call returns and leaving
\* the with-block gives the permit back.
StatsRespond(out) ==
    /\ sinflight > 0
    /\ sinflight' = sinflight - 1
    /\ stats_sem' = stats_sem + 1
    /\ slast' = [out |-> out, ret |-> stats_result(out)]
    /\ stats_bookkeeping(out)
    /\ UNCHANGED <<lock, swaiting, queryVars, controlVars, coordVars>>

----------------------------------------------------------------------------
(* PortainerControl *)

ControlActions == {"start_container", "stop_container", "restart_container",
                   "start_stack", "stop_stack"}
EndpointIds == {1}
TargetIds   == {"7"}

\* The service path each wrapper hands to _post_action.
ControlService(action, endpoint_id, target) ==
    CASE action = "start_container" ->
            "endpoints/" \o ToString(endpoint_id) \o "/docker/containers/" \o target \o "/start"
      [] action = "stop_container" ->
            "endpoints/" \o ToString(endpoint_id) \o "/docker/containers/" \o target \o "/stop"
      [] action = "restart_container" ->
            "endpoints/" \o ToString(endpoint_id) \o "/docker/containers/" \o target \o "/restart"
      [] action = "start_stack" ->
            "stacks/" \o target \o "/start?endpointId=" \o ToString(endpoint_id)
      [] action = "stop_stack" ->
            "stacks/" \o target \o "/stop?endpointId=" \o ToString(endpoint_id)

NoRequest == [action |-> "", service |-> ""]

\* A slip: only 200 counts as success.
post_action_only_200(out) ==
    out.kind = "resp" /\ out.status = 200

\* _post_action's verdict: True for a status in [200, 300), False for any
\* other status and for any exception.
post_action_result(out) ==
    out.kind = "resp" /\ 200 <= out.status /\ out.status < 300

\* A slip: the action is sent through the transport and waits for its mutex.
ControlCallBehindMutex(c, action, endpoint_id, target) ==
    /\ cpc[c] = "idle"
    /\ lock = NoThread
    /\ cpc' = [cpc EXCEPT ![c] = "posting"]
    /\ creq' = [creq EXCEPT ![c] = [action |-> action,
                                    service |-> ControlService(action, endpoint_id, target)]]
    /\ cout' = [cout EXCEPT ![c] = NoOutcome]
    /\ cret' = [cret EXCEPT ![c] = Pending]
    /\ UNCHANGED <<transportVars, lock, stats_sem, queryVars, statsVars, coordVars>>

\* A wrapper is called; _post_action sends its own POST (requests.post),
\* whatever the state of the transport's mutex.
ControlCall(c, action, endpoint_id, target) ==
    /\ cpc[c] = "idle"
    /\ cpc' = [cpc EXCEPT ![c] = "posting"]
    /\ creq' = [creq EXCEPT ![c] = [action |-> action,
                                    service |-> ControlService(action, endpoint_id, target)]]
    /\ cout' = [cout EXCEPT ![c] = NoOutcome]
    /\ cret' = [cret EXCEPT ![c] = Pending]
    /\ UNCHANGED <<transportVars, lock, stats_sem, queryVars, statsVars, coordVars>>

\* The POST ends with outcome `out`; _post_action returns its verdict.
ControlRespond(c, out) ==
    /\ cpc[c] = "posting"
    /\ cpc' = [cpc EXCEPT ![c] = "returned"]
    /\ cout' = [cout EXCEPT ![c] = out]
    /\ cret' = [cret EXCEPT ![c] = RetBool(post_action_result(out))]
    /\ UNCHANGED <<transportVars, lock, stats_sem, creq, queryVars, statsVars, coordVars>>

\* The caller has taken the verdict; it may act again.
ControlReturn(c) ==
    /\ cpc[c] = "returned"
    /\ cpc' = [cpc EXCEPT ![c] = "idle"]
    /\ creq' = [creq EXCEPT ![c] = NoRequest]
    /\ cout' = [cout EXCEPT ![c] = NoOutcome]
    /\ cret' = [cret EXCEPT ![c] = Pending]
    /\ UNCHANGED <<transportVars, lock, stats_sem, queryVars, statsVars, coordVars>>

----------------------------------------------------------------------------
(* PortainerCoordinator: the values of the inventory *)

\* Python dicts are functions; {} is the function with the empty domain.
EmptyDict == << >>

\* Python's None, and the entity that was not created yet.
None     == [none |-> TRUE]
\* No function call under evaluation.
NoCall == [fn |-> "none"]
NoEntity == [kind |-> "none"]

Put(d, k, v) == [x \in (DOMAIN d) \cup {k} |-> IF x = k THEN v ELSE d[x]]
Get(d, k, default) == IF k \in DOMAIN d THEN d[k] ELSE default

\* dict.values(): the values of d, one after the other.
RECURSIVE ValuesOf(_)
ValuesOf(d) ==
    IF DOMAIN d = {} THEN << >>
    ELSE LET k == CHOOSE x \in DOMAIN d : TRUE
         IN  <<d[k]>> \o ValuesOf([x \in (DOMAIN d) \ {k} |-> d[x]])

\* The elements of a sequence.
Range(s) == {s[i] : i \in DOMAIN s}

\* s[1:]
StripFirst(s) == IF s = "" THEN "" ELSE Tail(s)

\* str.strip(), for names padded with at most one blank on either side.
Strip(s) ==
    LET l == IF s # "" /\ SubSeq(s, 1, 1) = " " THEN Tail(s) ELSE s
    IN  IF l # "" /\ SubSeq(l, Len(l), Len(l)) = " " THEN SubSeq(l, 1, Len(l) - 1) ELSE l

CONFIG_ENTRY_ID == "entry1"
ConfigEntryData == [host |-> "portainer:9443"]

\* raw_data as __init__ leaves it
InitialRawData ==
    [endpoints |-> EmptyDict, containers |-> EmptyDict,
     containers_by_name |-> EmptyDict, stacks |-> EmptyDict]

\* Rows of the API's JSON lists.
EP(id, name, status, snapshots) ==
    [Id |-> id, Name |-> name, Status |-> status, Snapshots |-> snapshots]
Snap(version) == [DockerVersion |-> version]
CT(id, names, state, stack, service) ==
    [Id |-> id, Names |-> names, State |-> state,
     Compose_Stack |-> stack, Compose_Service |-> service]
ST(id, name, endpoint_id) == [Id |-> id, Name |-> name, EndpointId |-> endpoint_id, Type |-> 2]

\* parse_api(data={}, source=..., key="Id", vals=...): the rows of the list
\* keyed by their Id; {} when the query handed back None.
parse_api_by_id(source) ==
    IF source.kind # "data" THEN EmptyDict
    ELSE [k \in {r.Id : r \in source.val} |-> CHOOSE r \in source.val : r.Id = k]

\* What query() hands back for an outcome.
query_return(out) == IF QuerySucceeds(out) THEN RetData(out.body.val) ELSE RetNone

\* query(service) called from a fetch stage, from call to return: the mutex
\* is free, the request ends with `out`, the bookkeeping is updated.
api_query(service, out) ==
    /\ lock = NoThread
    /\ ~QuerySucceeds(out) => fail_counts[service] < MaxFails
    /\ IF QuerySucceeds(out)
       THEN record_success(service)
       ELSE record_failure(service, FailureCode(out))

ContainerService(eid) == "endpoints/" \o ToString(eid) \o "/docker/containers/json"

----------------------------------------------------------------------------
(* PortainerCoordinator: the fetch stages as functions of raw_data *)

\* get_endpoints: the second parse_api flattens Snapshots[0] into the record
\* and Snapshots is deleted. An endpoint whose Snapshots list is empty raises
\* IndexError; the endpoints before it are already flattened.
endpoint_record(e) ==
    [Id |-> e.Id, Name |-> e.Name, Status |-> e.Status,
     DockerVersion |-> e.Snapshots[1].DockerVersion, ConfigEntryId |-> CONFIG_ENTRY_ID]

get_endpoints(rd, source) ==
    LET parsed == parse_api_by_id(source)
        bad    == {eid \in DOMAIN parsed : parsed[eid].Snapshots = << >>}
        done   == {eid \in DOMAIN parsed : \A b \in bad : eid < b}
    IN  [raised |-> bad # {},
         rd |-> Put(rd, "endpoints",
                    [eid \in DOMAIN parsed |->
                        IF eid \in done THEN endpoint_record(parsed[eid])
                        ELSE parsed[eid]])]

\* _parse_containers_for_endpoint followed by
\* _set_container_environment_and_config, for one endpoint. A container
\* whose Names list is empty raises IndexError at Names[0], after its
\* Environment was set.
parsed_container(eid, c) ==
    [Id |-> c.Id, Names |-> c.Names, State |-> c.State,
     Compose_Stack |-> c.Compose_Stack, Compose_Service |-> c.Compose_Service,
     Name |-> "unknown", EndpointId |-> eid, _Custom |-> None]

\* A slip: the record is tagged with the endpoint's id where its display
\* name belongs.
container_record_env_is_id(eid, environment, c) ==
    [Id |-> c.Id, Names |-> c.Names, State |-> c.State,
     Compose_Stack |-> c.Compose_Stack, Compose_Service |-> c.Compose_Service,
     Name |-> IF c.Names = << >> THEN "unknown" ELSE StripFirst(c.Names[1]),
     EndpointId |-> eid, Environment |-> ToString(eid),
     ConfigEntryId |-> CONFIG_ENTRY_ID, _Custom |-> EmptyDict]

container_record(eid, environment, c) ==
    IF c.Names = << >>
    THEN [Id |-> c.Id, Names |-> c.Names, State |-> c.State,
          Compose_Stack |-> c.Compose_Stack, Compose_Service |-> c.Compose_Service,
          Name |-> "unknown", EndpointId |-> eid, Environment |-> environment,
          _Custom |-> None]
    ELSE [Id |-> c.Id, Names |-> c.Names, State |-> c.State,
          Compose_Stack |-> c.Compose_Stack, Compose_Service |-> c.Compose_Service,
          Name |-> StripFirst(c.Names[1]), EndpointId |-> eid,
          Environment |-> environment, ConfigEntryId |-> CONFIG_ENTRY_ID,
          _Custom |-> EmptyDict]

containers_for_endpoint(rd, eid, source) ==
    LET parsed == parse_api_by_id(source)
        env    == rd.endpoints[eid].Name
    IN  [raised |-> \E cid \in DOMAIN parsed : parsed[cid].Names = << >>,
         rd |-> Put(rd, "containers",
                    Put(rd.containers, eid,
                        [cid \in DOMAIN parsed |->
                            container_record(eid, env, parsed_container(eid, parsed[cid]))]))]

\* _flatten_containers_dict_by_id: key f"{eid}{cid}"
flatten_containers_dict_by_id(containers) ==
    LET pairs == UNION {{<<eid, cid>> : cid \in DOMAIN containers[eid]} :
                            eid \in DOMAIN containers}
        key(p) == ToString(p[1]) \o p[2]
    IN  [k \in {key(p) : p \in pairs} |->
            LET p == CHOOSE q \in pairs : key(q) = k IN containers[p[1]][p[2]]]

\* f"{eid}:{name}"
name_key(c) == ToString(c.EndpointId) \o ":" \o c.Name

\* `eid is None or not name`: the record has no endpoint id or no name
unnamed(c) == "EndpointId" \notin DOMAIN c \/ "Name" \notin DOMAIN c \/ c.Name = ""

\* _index_containers_by_name over flat_by_id.values() (the last record of a key
\* wins), with a slip of it that keys by the name alone
index_containers_by_bare_name(values) ==
    LET kept == {i \in DOMAIN values : ~unnamed(values[i])}
    IN  [k \in {values[i].Name : i \in kept} |->
            values[CHOOSE i \in kept :
                      /\ values[i].Name = k
                      /\ \A j \in kept : values[j].Name = k => j <= i]]

index_containers_by_name(values) ==
    LET kept == {i \in DOMAIN values : ~unnamed(values[i])}
    IN  [k \in {name_key(values[i]) : i \in kept} |->
            values[CHOOSE i \in kept :
                      /\ name_key(values[i]) = k
                      /\ \A j \in kept : name_key(values[j]) = k => j <= i]]

\* get_containers after its loop: flatten, then index
containers_indexed(rd) ==
    LET flat_by_id == flatten_containers_dict_by_id(rd.containers)
    IN  Put(Put(rd, "containers", flat_by_id),
            "containers_by_name", index_containers_by_name(ValuesOf(flat_by_id)))

\* _fallback_stacks_from_containers: one record per (endpoint, compose
\* project) found on the flat containers; the first container of a key wins,
\* and every container of a key yields the same record.
synth_id(eid, stack_name) == "synth-" \o ToString(eid) \o ":" \o stack_name

fallback_stacks_from_containers(rd) ==
    LET flat      == Get(rd, "containers", EmptyDict)
        endpoints == Get(rd, "endpoints", EmptyDict)
        name(c)   == Strip(Get(c, "Compose_Stack", ""))
        usable    == {c \in Range(ValuesOf(flat)) :
                         Get(c, "EndpointId", 0) # 0 /\ name(c) # ""}
        key(c)    == ToString(c.EndpointId) \o ":" \o synth_id(c.EndpointId, name(c))
    IN  [k \in {key(c) : c \in usable} |->
            LET c == CHOOSE u \in usable : key(u) = k
            IN  [Id |-> synth_id(c.EndpointId, name(c)),
                 Name |-> name(c),
                 EndpointId |-> c.EndpointId,
                 Type |-> 0,
                 Environment |-> Get(Get(endpoints, c.EndpointId, EmptyDict), "Name", ""),
                 ConfigEntryId |-> CONFIG_ENTRY_ID]]

\* `not self.raw_data.get("endpoints")`: get_stacks returns before any query
no_endpoints(rd) == DOMAIN Get(rd, "endpoints", EmptyDict) = {}

online_endpoints(rd) == {eid \in DOMAIN rd.endpoints : rd.endpoints[eid].Status = 1}

\* get_stacks once the stacks query has returned `source`, with a slip of it
\* that never falls back
get_stacks_no_fallback(rd, source) ==
    LET stacks_map == parse_api_by_id(source)
        kept == {sid \in DOMAIN stacks_map :
                    stacks_map[sid].EndpointId \in online_endpoints(rd)}
        key(sid) == ToString(stacks_map[sid].EndpointId) \o ":" \o ToString(sid)
    IN  Put(rd, "stacks",
            [k \in {key(sid) : sid \in kept} |->
                LET s == stacks_map[CHOOSE sid \in kept : key(sid) = k]
                IN  [Id |-> s.Id, Name |-> s.Name, EndpointId |-> s.EndpointId,
                     Type |-> s.Type,
                     Environment |-> rd.endpoints[s.EndpointId].Name,
                     ConfigEntryId |-> CONFIG_ENTRY_ID]])

get_stacks(rd, source) ==
    LET stacks_map == parse_api_by_id(source)
        kept == {sid \in DOMAIN stacks_map :
                    stacks_map[sid].EndpointId \in online_endpoints(rd)}
        key(sid) == ToString(stacks_map[sid].EndpointId) \o ":" \o ToString(sid)
    IN  IF DOMAIN stacks_map = {} \/ kept = {}
        THEN Put(rd, "stacks", fallback_stacks_from_containers(rd))
        ELSE Put(rd, "stacks",
                 [k \in {key(sid) : sid \in kept} |->
                    LET s == stacks_map[CHOOSE sid \in kept : key(sid) = k]
                    IN  [Id |-> s.Id, Name |-> s.Name, EndpointId |-> s.EndpointId,
                         Type |-> s.Type,
                         Environment |-> rd.endpoints[s.EndpointId].Name,
                         ConfigEntryId |-> CONFIG_ENTRY_ID]])

\* get_system_data with the update check feature off and no check made yet
get_system_data(rd) ==
    Put(rd, "system",
        [next_update_check |-> "disabled", update_feature_enabled |-> FALSE,
         last_update_check |-> "never"])

----------------------------------------------------------------------------
(* PortainerCoordinator._async_update_data and async_shutdown *)

\* The invocations of _async_update_data that can be in progress together:
\* the refresh the update interval schedules and a refresh that was
\* requested (async_request_refresh).
Ticks == {"scheduled", "requested"}

\* What the API answers to the queries of a tick.
TickEndpointRows ==
    { {},
      {EP(1, "local", 1, <<Snap("24.0")>>)},
      {EP(1, "local", 1, <<Snap("24.0")>>), EP(2, "edge", 2, <<Snap("20.10")>>)},
      {EP(1, "local", 1, << >>)} }
TickContainerRows ==
    { {},
      {CT("a", <<"/web">>, "running", "myapp", "web")},
      {CT("b", << >>, "created", "", "")} }
TickStackRows ==
    { {}, {ST(7, "myapp", 1)}, {ST(8, "other", 2)} }

Answers(rows) == {Resp(200, JsonBody(r)) : r \in rows} \cup {Resp(500, Malformed)}

TickEndpointIds == {1, 2}

\* The except clause of the tick: release the lock and raise UpdateFailed;
\* release() on a lock that is not held raises RuntimeError instead. First a
\* slip of it that logs the exception and lets the tick go on.
TickAbortGoesOn(t) ==
    /\ tick_lock' = FALSE
    /\ tret' = [tret EXCEPT ![t] = IF tick_lock THEN "UpdateFailed" ELSE "RuntimeError"]
    /\ tpc' = [tpc EXCEPT ![t] = "get_system_data"]
    /\ tloop' = [tloop EXCEPT ![t] = {}]
    /\ UNCHANGED <<data, last_good>>

TickAbort(t) ==
    /\ tick_lock' = FALSE
    /\ tret' = [tret EXCEPT ![t] = IF tick_lock THEN "UpdateFailed" ELSE "RuntimeError"]
    /\ tpc' = [tpc EXCEPT ![t] = "returned"]
    /\ tloop' = [tloop EXCEPT ![t] = {}]
    /\ UNCHANGED <<data, last_good>>

\* _async_update_data is called and waits for the lock.
TickStart(t) ==
    /\ tpc[t] = "idle"
    /\ tpc' = [tpc EXCEPT ![t] = "acquiring"]
    /\ tstages' = [tstages EXCEPT ![t] = << >>]
    /\ tqueries' = [tqueries EXCEPT ![t] = {}]
    /\ tfound' = [tfound EXCEPT ![t] = {}]
    /\ tret' = [tret EXCEPT ![t] = "pending"]
    /\ UNCHANGED <<tick_lock, tloop, raw_data, data, last_good>>
    /\ UNCHANGED <<transportVars, apiVars, restVars>>

\* The lock is free: acquire() returns, raw_data is reset and get_endpoints
\* is handed to the executor.
TickAcquire(t) ==
    /\ tpc[t] = "acquiring"
    /\ ~tick_lock
    /\ tick_lock' = TRUE
    /\ raw_data' = EmptyDict
    /\ tpc' = [tpc EXCEPT ![t] = "get_endpoints"]
    /\ UNCHANGED <<tloop, tstages, tqueries, tfound, tret, data, last_good>>
    /\ UNCHANGED <<transportVars, apiVars, restVars>>

\* The lock stayed held for the 10 s of wait_for: the tick returns {}, which
\* becomes the coordinator's data.
TickTimeout(t) ==
    /\ tpc[t] = "acquiring"
    /\ tick_lock
    /\ tpc' = [tpc EXCEPT ![t] = "returned"]
    /\ tret' = [tret EXCEPT ![t] = "skipped"]
    /\ data' = EmptyDict
    /\ UNCHANGED <<tick_lock, tloop, tstages, tqueries, tfound, raw_data, last_good>>
    /\ UNCHANGED <<transportVars, apiVars, restVars>>

\* get_endpoints runs: one query, then the flattening of the snapshots.
TickEndpoints(t, out) ==
    /\ tpc[t] = "get_endpoints"
    /\ api_query("endpoints", out)
    /\ tqueries' = [tqueries EXCEPT ![t] = @ \cup {"endpoints"}]
    /\ tstages' = [tstages EXCEPT ![t] = Append(@, "endpoints")]
    /\ LET r == get_endpoints(raw_data, query_return(out))
       IN  /\ raw_data' = r.rd
           /\ tfound' = [tfound EXCEPT ![t] = DOMAIN r.rd.endpoints]
           /\ IF r.raised
              THEN TickAbort(t)
              ELSE /\ tpc' = [tpc EXCEPT ![t] = "get_containers"]
                   /\ UNCHANGED <<tick_lock, tloop, tret, data, last_good>>
    /\ UNCHANGED <<apiVars, restVars>>

\* get_containers starts: raw_data["containers"] = {} and the loop over
\* raw_data["endpoints"] is set up (KeyError when that key is gone).
TickContainersEnter(t) ==
    /\ tpc[t] = "get_containers"
    /\ tstages' = [tstages EXCEPT ![t] = Append(@, "containers")]
    /\ UNCHANGED <<tqueries, tfound>>
    /\ raw_data' = Put(raw_data, "containers", EmptyDict)
    /\ IF "endpoints" \notin DOMAIN raw_data
       THEN TickAbort(t)
       ELSE /\ tloop' = [tloop EXCEPT ![t] = DOMAIN raw_data.endpoints]
            /\ tpc' = [tpc EXCEPT ![t] = "containers_loop"]
            /\ UNCHANGED <<tick_lock, tret, data, last_good>>
    /\ UNCHANGED <<transportVars, apiVars, restVars>>

\* The endpoint the loop visits next, and whether its record can be read.
NextEndpoint(t) == CHOOSE eid \in tloop[t] : \A other \in tloop[t] : eid <= other
Readable(eid) == "endpoints" \in DOMAIN raw_data /\ eid \in DOMAIN raw_data.endpoints

\* One pass of the loop over an endpoint that is not online (Status != 1):
\* `continue`. Reading a record that is gone raises KeyError.
TickContainersSkip(t) ==
    /\ tpc[t] = "containers_loop"
    /\ tloop[t] # {}
    /\ LET eid == NextEndpoint(t)
       IN  /\ ~(Readable(eid) /\ raw_data.endpoints[eid].Status = 1)
           /\ IF ~Readable(eid)
              THEN TickAbort(t)
              ELSE /\ tloop' = [tloop EXCEPT ![t] = @ \ {eid}]
                   /\ UNCHANGED <<tick_lock, tpc, tret, data, last_good>>
    /\ UNCHANGED <<tstages, tqueries, tfound, raw_data>>
    /\ UNCHANGED <<transportVars, apiVars, restVars>>

\* One pass of the loop over an online endpoint: its containers are queried,
\* parsed, stored under raw_data["containers"][eid] and tagged.
TickContainersFetch(t, out) ==
    /\ tpc[t] = "containers_loop"
    /\ tloop[t] # {}
    /\ LET eid == NextEndpoint(t)
       IN  /\ Readable(eid) /\ raw_data.endpoints[eid].Status = 1
           /\ api_query(ContainerService(eid), out)
           /\ tqueries' = [tqueries EXCEPT ![t] = @ \cup {ContainerService(eid)}]
           /\ UNCHANGED tfound
           /\ IF "containers" \notin DOMAIN raw_data
              THEN /\ TickAbort(t)
                   /\ UNCHANGED raw_data
              ELSE LET r == containers_for_endpoint(raw_data, eid, query_return(out))
                   IN  /\ raw_data' = r.rd
                       /\ IF r.raised
                          THEN TickAbort(t)
                          ELSE /\ tloop' = [tloop EXCEPT ![t] = @ \ {eid}]
                               /\ UNCHANGED <<tick_lock, tpc, tret, data, last_good>>
    /\ UNCHANGED tstages
    /\ UNCHANGED <<apiVars, restVars>>

\* The loop is over: containers are flattened by id and indexed by name.
TickContainersIndex(t) ==
    /\ tpc[t] = "containers_loop"
    /\ tloop[t] = {}
    /\ IF "containers" \notin DOMAIN raw_data
       THEN /\ TickAbort(t)
            /\ UNCHANGED raw_data
       ELSE /\ raw_data' = containers_indexed(raw_data)
            /\ tpc' = [tpc EXCEPT ![t] = "get_stacks"]
            /\ UNCHANGED <<tick_lock, tloop, tret, data, last_good>>
    /\ UNCHANGED <<tstages, tqueries, tfound>>
    /\ UNCHANGED <<transportVars, apiVars, restVars>>

\* get_stacks with no endpoints: raw_data["stacks"] = {} and no query.
TickStacksNoEndpoints(t) ==
    /\ tpc[t] = "get_stacks"
    /\ no_endpoints(raw_data)
    /\ tstages' = [tstages EXCEPT ![t] = Append(@, "stacks")]
    /\ UNCHANGED <<tqueries, tfound>>
    /\ raw_data' = Put(raw_data, "stacks", EmptyDict)
    /\ tpc' = [tpc EXCEPT ![t] = "get_system_data"]
    /\ UNCHANGED <<tick_lock, tloop, tret, data, last_good>>
    /\ UNCHANGED <<transportVars, apiVars, restVars>>

\* get_stacks with endpoints: the stacks query, the filter, the fallback.
TickStacks(t, out) ==
    /\ tpc[t] = "get_stacks"
    /\ ~no_endpoints(raw_data)
    /\ api_query("stacks", out)
    /\ tqueries' = [tqueries EXCEPT ![t] = @ \cup {"stacks"}]
    /\ UNCHANGED tfound
    /\ tstages' = [tstages EXCEPT ![t] = Append(@, "stacks")]
    /\ raw_data' = get_stacks(Put(raw_data, "stacks", EmptyDict), query_return(out))
    /\ tpc' = [tpc EXCEPT ![t] = "get_system_data"]
    /\ UNCHANGED <<tick_lock, tloop, tret, data, last_good>>
    /\ UNCHANGED <<apiVars, restVars>>

\* get_system_data runs and the tick ends: the lock is released (RuntimeError
\* when it is not held), subscribers are notified, raw_data is returned and
\* becomes the coordinator's data.
TickSystem(t) ==
    /\ tpc[t] = "get_system_data"
    /\ tstages' = [tstages EXCEPT ![t] = Append(@, "system")]
    /\ UNCHANGED <<tqueries, tfound>>
    /\ raw_data' = get_system_data(raw_data)
    /\ tpc' = [tpc EXCEPT ![t] = "returned"]
    /\ IF tick_lock
       THEN /\ tick_lock' = FALSE
            /\ tret' = [tret EXCEPT ![t] = "ok"]
            /\ data' = raw_data'
            /\ last_good' = raw_data'
       ELSE /\ tret' = [tret EXCEPT ![t] = "RuntimeError"]
            /\ UNCHANGED <<tick_lock, data, last_good>>
    /\ UNCHANGED tloop
    /\ UNCHANGED <<transportVars, apiVars, restVars>>

\* The tick's task is cancelled while it awaits a stage, here as the job of
\* the stage before has just finished: CancelledError is raised at the await.
\* It is a BaseException, so `except Exception` does not catch it and
\* neither release() is reached.
TickCancel(t) ==
    /\ tpc[t] \in {"get_containers", "get_stacks", "get_system_data"}
    /\ tpc' = [tpc EXCEPT ![t] = "returned"]
    /\ tret' = [tret EXCEPT ![t] = "cancelled"]
    /\ UNCHANGED <<tick_lock, tloop, tstages, tqueries, tfound, raw_data, data, last_good>>
    /\ UNCHANGED <<transportVars, apiVars, restVars>>

\* The caller has taken the tick's result; the next tick may start.
TickReturn(t) ==
    /\ tpc[t] = "returned"
    /\ tpc' = [tpc EXCEPT ![t] = "idle"]
    /\ tstages' = [tstages EXCEPT ![t] = << >>]
    /\ tqueries' = [tqueries EXCEPT ![t] = {}]
    /\ tfound' = [tfound EXCEPT ![t] = {}]
    /\ tret' = [tret EXCEPT ![t] = "pending"]
    /\ UNCHANGED <<tick_lock, tloop, raw_data, data, last_good>>
    /\ UNCHANGED <<transportVars, apiVars, restVars>>

\* async_shutdown: a locked lock is released, whoever acquired it.
Shutdown ==
    /\ tick_lock
    /\ tick_lock' = FALSE
    /\ UNCHANGED <<tpc, tloop, tstages, tqueries, tfound, tret, raw_data, data, last_good>>
    /\ UNCHANGED <<transportVars, apiVars, restVars>>

----------------------------------------------------------------------------
(* The stats arithmetic: compute_cpu_percent, compute_memory_used_bytes,    *)
(* compute_memory_percent                                                   *)

\* Python floats are modelled as exact fractions in lowest terms (rounding
\* is left out): [num, den] with den > 0.
RECURSIVE GCD(_, _)
GCD(a, b) == IF b = 0 THEN a ELSE GCD(b, a % b)

Abs(x) == IF x < 0 THEN 0 - x ELSE x

Frac(n, d) ==
    LET g == GCD(Abs(n), Abs(d))
        sign == IF d < 0 THEN 0 - 1 ELSE 1
    IN  [num |-> sign * (n \div g), den |-> sign * (d \div g)]

FracMul(x, y) ==
    LET a == Frac(x.num, y.den)
        b == Frac(y.num, x.den)
    IN  [num |-> a.num * b.num, den |-> a.den * b.den]

FracAdd(x, y) == Frac(x.num * y.den + y.num * x.den, x.den * y.den)

Whole(n) == [num |-> n, den |-> 1]

\* The stats payload is a function from the paths that are present (and not
\* null) to their values; _safe_get(stats, *path, default=...)
safe_get(stats, path, default) == IF path \in DOMAIN stats THEN stats[path] ELSE default

\* compute_cpu_percent, with a slip of it that leaves out the CPU count
compute_cpu_percent_one_cpu(stats) ==
    LET cpu_total      == safe_get(stats, "cpu_stats/cpu_usage/total_usage", 0)
        precpu_total   == safe_get(stats, "precpu_stats/cpu_usage/total_usage", 0)
        system_cpu     == safe_get(stats, "cpu_stats/system_cpu_usage", 0)
        pre_system_cpu == safe_get(stats, "precpu_stats/system_cpu_usage", 0)
        cpu_delta      == cpu_total - precpu_total
        system_delta   == system_cpu - pre_system_cpu
    IN  IF cpu_delta <= 0 \/ system_delta <= 0 THEN Whole(0)
        ELSE FracMul(Frac(cpu_delta, system_delta), Whole(100))

compute_cpu_percent(stats) ==
    LET cpu_total      == safe_get(stats, "cpu_stats/cpu_usage/total_usage", 0)
        precpu_total   == safe_get(stats, "precpu_stats/cpu_usage/total_usage", 0)
        system_cpu     == safe_get(stats, "cpu_stats/system_cpu_usage", 0)
        pre_system_cpu == safe_get(stats, "precpu_stats/system_cpu_usage", 0)
        cpu_delta      == cpu_total - precpu_total
        system_delta   == system_cpu - pre_system_cpu
        reported       == safe_get(stats, "cpu_stats/online_cpus", 0)
        percpu_usage   == safe_get(stats, "cpu_stats/cpu_usage/percpu_usage", << >>)
        online_cpus    == IF reported # 0 THEN reported
                          ELSE IF Len(percpu_usage) # 0 THEN Len(percpu_usage)
                          ELSE 1
    IN  IF cpu_delta <= 0 \/ system_delta <= 0 THEN Whole(0)
        ELSE FracMul(FracMul(Frac(cpu_delta, system_delta), Whole(online_cpus)),
                     Whole(100))

\* A slip: inactive_file is never consulted.
compute_memory_used_bytes_cache_only(stats, exclude_cache) ==
    LET usage == safe_get(stats, "memory_stats/usage", 0)
        cache == safe_get(stats, "memory_stats/stats/cache", 0)
        used  == IF exclude_cache THEN usage - cache ELSE usage
    IN  IF used > 0 THEN used ELSE 0

\* compute_memory_used_bytes
compute_memory_used_bytes(stats, exclude_cache) ==
    LET usage    == safe_get(stats, "memory_stats/usage", 0)
        cache    == safe_get(stats, "memory_stats/stats/cache", 0)
        inactive == safe_get(stats, "memory_stats/stats/inactive_file", 0)
        dropped  == IF cache = 0 THEN inactive ELSE cache
        used     == IF exclude_cache THEN usage - dropped ELSE usage
    IN  IF used > 0 THEN used ELSE 0

\* compute_memory_percent
compute_memory_percent(stats, used_bytes) ==
    LET limit == safe_get(stats, "memory_stats/limit", 0)
    IN  IF limit <= 0 THEN Whole(0)
        ELSE FracMul(Frac(used_bytes, limit), Whole(100))

----------------------------------------------------------------------------
(* ContainerStatsCoordinator *)

\* DEFAULT_STATS_SMOOTHING_ALPHA = 0.2, DEFAULT_MEM_EXCLUDE_CACHE = True
DEFAULT_STATS_SMOOTHING_ALPHA == Frac(1, 5)
DEFAULT_MEM_EXCLUDE_CACHE == TRUE

ContainerStatsData(cpu_percent, mem_used_bytes, mem_used_mib, mem_percent, raw) ==
    [cpu_percent |-> cpu_percent, mem_used_bytes |-> mem_used_bytes,
     mem_used_mib |-> mem_used_mib, mem_percent |-> mem_percent, raw |-> raw]

\* The snapshot of the no-data branch when nothing was computed before.
zeros == ContainerStatsData(Whole(0), 0, Whole(0), Whole(0), EmptyDict)

\* `if not stats`: None and the empty object are both no data.
no_stats(stats) == stats = None \/ DOMAIN stats = {}

\* What the tick gets from get_container_stats: the decoded object `st` of
\* a 200 response, None for every other outcome.
fetched_stats(out, st) == IF stats_result(out).kind = "data" THEN st ELSE None

\* A slip: the weights of the new sample and of the history are swapped.
smoothed_cpu_swapped(alpha, last_cpu, cpu) ==
    IF last_cpu = None THEN cpu
    ELSE FracAdd(FracMul(alpha, last_cpu),
                 FracMul(FracAdd(Whole(1), [num |-> 0 - alpha.num, den |-> alpha.den]),
                         cpu))

\* The exponential smoothing of the CPU percentage.
smoothed_cpu(alpha, last_cpu, cpu) ==
    IF last_cpu = None THEN cpu
    ELSE FracAdd(FracMul(alpha, cpu),
                 FracMul(FracAdd(Whole(1), [num |-> 0 - alpha.num, den |-> alpha.den]),
                         last_cpu))

\* The snapshot computed from a payload.
computed(stats, cpu_out) ==
    LET used_bytes == compute_memory_used_bytes(stats, DEFAULT_MEM_EXCLUDE_CACHE)
    IN  ContainerStatsData(cpu_out, used_bytes, Frac(used_bytes, 1048576),
                           compute_memory_percent(stats, used_bytes), stats)

\* A slip: a tick without data publishes zeros even when a snapshot exists.
no_data_forgets(last) == zeros

\* The no-data branch: the last snapshot if there is one, else zeros.
no_data(last) == IF last # None THEN last ELSE zeros

\* ContainerStatsCoordinator._async_update_data, the call of
\* get_container_stats included: the request ends with outcome `out`, whose
\* body (when it is a 200 that parses) decodes to `st`. The value returned
\* becomes the coordinator's data.
SubTick(out, st) ==
    LET stats == fetched_stats(out, st)
        alpha == sub_alpha
    IN  /\ Len(sub_calls) < MaxSubTicks
        /\ stats_sem > 0
        /\ stats_bookkeeping(out)
        /\ sub_calls' = Append(sub_calls, [out |-> out, stats |-> stats])
        /\ IF no_stats(stats)
           THEN /\ sub_last' = no_data(sub_last)
                /\ sub_data' = no_data(sub_last)
                /\ UNCHANGED sub_last_cpu
           ELSE LET cpu == compute_cpu_percent(stats)
                    smooth == alpha.num > 0
                    cpu_out == IF smooth THEN smoothed_cpu(alpha, sub_last_cpu, cpu) ELSE cpu
                IN  /\ sub_last_cpu' = IF smooth THEN cpu_out ELSE sub_last_cpu
                    /\ sub_last' = computed(stats, cpu_out)
                    /\ sub_data' = computed(stats, cpu_out)
        /\ UNCHANGED <<sub_alpha, regVars, tickVars, apiVars, callVars, entVars>>

----------------------------------------------------------------------------
(* The registry of stats coordinators *)

\* ContainerStatsCoordinator.__init__: an object is told apart by its serial
\* number; `pc` is the position of its refresh, `polled` the container id
\* its last request was sent for.
new_coordinator(serial, endpoint_id, container_id) ==
    [serial |-> serial, endpoint_id |-> endpoint_id, container_id |-> container_id,
     last |-> None, last_cpu |-> None, pc |-> "idle", polled |-> ""]

\* A slip: a key that is present keeps the container id it was created with.
get_or_create_keeps_id(ns, n, entry_id, endpoint_id, container_key, container_id) ==
    LET key == <<entry_id, container_key>>
    IN  IF key \in DOMAIN ns
        THEN [ns |-> ns, made |-> n, coord |-> ns[key].serial]
        ELSE [ns |-> Put(ns, key, new_coordinator(n + 1, endpoint_id, container_id)),
              made |-> n + 1, coord |-> n + 1]

\* A slip: the namespace is assigned afresh where setdefault belongs, so a
\* new key drops the coordinators registered before.
get_or_create_fresh_namespace(ns, n, entry_id, endpoint_id, container_key, container_id) ==
    LET key == <<entry_id, container_key>>
    IN  IF key \in DOMAIN ns
        THEN [ns |-> [ns EXCEPT ![key].container_id = container_id],
              made |-> n, coord |-> ns[key].serial]
        ELSE [ns |-> Put(EmptyDict, key, new_coordinator(n + 1, endpoint_id, container_id)),
              made |-> n + 1, coord |-> n + 1]

\* get_or_create_container_stats_coordinator: the namespace and the number
\* of objects after the call, and the object returned.
get_or_create_container_stats_coordinator(ns, n, entry_id, endpoint_id, container_key, container_id) ==
    LET key == <<entry_id, container_key>>
    IN  IF key \in DOMAIN ns
        THEN [ns |-> [ns EXCEPT ![key].container_id = container_id],
              made |-> n, coord |-> ns[key].serial]
        ELSE [ns |-> Put(ns, key, new_coordinator(n + 1, endpoint_id, container_id)),
              made |-> n + 1, coord |-> n + 1]

\* _container_stats_factory up to its call of get_or_create: the arguments
\* are taken from the container record `cont` of the inventory.
StatsFactoryCall(entry_id, cont) ==
    /\ arg = NoCall \/ result # NoCall
    /\ arg' = [fn |-> "get_or_create", entry_id |-> entry_id,
               endpoint_id |-> cont.EndpointId,
               container_key |-> ToString(cont.EndpointId) \o ":" \o cont.Name,
               container_id |-> cont.Id]
    /\ result' = NoCall
    /\ UNCHANGED <<tickVars, transportVars, apiVars, entVars, subVars>>

\* get_or_create_container_stats_coordinator runs and returns.
GetOrCreate ==
    /\ arg.fn = "get_or_create"
    /\ result = NoCall
    /\ LET r == get_or_create_container_stats_coordinator(
                    stats_ns, made, arg.entry_id, arg.endpoint_id,
                    arg.container_key, arg.container_id)
       IN  /\ stats_ns' = r.ns
           /\ made' = r.made
           /\ result' = [fn |-> arg.fn, coord |-> r.coord]
    /\ UNCHANGED <<arg, tickVars, transportVars, apiVars, entVars,
                   sub_last, sub_last_cpu, sub_data, sub_calls, sub_alpha>>

\* The refresh of a registered coordinator starts: get_container_stats is
\* called for the object's endpoint and container id and reaches
\* `with self._stats_sem`.
RefreshStart(key) ==
    /\ key \in DOMAIN stats_ns
    /\ stats_ns[key].pc = "idle"
    /\ stats_ns' = [stats_ns EXCEPT ![key].pc = "waiting",
                                    ![key].polled = stats_ns[key].container_id]
    /\ swaiting' = swaiting + 1
    /\ UNCHANGED <<made, sub_last, sub_last_cpu, sub_data, sub_calls, sub_alpha>>
    /\ UNCHANGED <<transportVars, lock, stats_sem, sinflight, slast, queryVars, controlVars,
                   tickVars, callVars, entVars>>

\* A slip: the request waits for the query mutex as well.
RefreshAcquireBehindMutex(key) ==
    /\ key \in DOMAIN stats_ns
    /\ stats_ns[key].pc = "waiting"
    /\ stats_sem > 0
    /\ lock = NoThread
    /\ stats_sem' = stats_sem - 1
    /\ swaiting' = swaiting - 1
    /\ sinflight' = sinflight + 1
    /\ stats_ns' = [stats_ns EXCEPT ![key].pc = "inflight"]
    /\ UNCHANGED <<made, sub_last, sub_last_cpu, sub_data, sub_calls, sub_alpha>>
    /\ UNCHANGED <<transportVars, lock, slast, queryVars, controlVars,
                   tickVars, callVars, entVars>>

\* `with self._stats_sem`: a permit is free and the request is sent.
RefreshAcquire(key) ==
    /\ key \in DOMAIN stats_ns
    /\ stats_ns[key].pc = "waiting"
    /\ stats_sem > 0
    /\ stats_sem' = stats_sem - 1
    /\ swaiting' = swaiting - 1
    /\ sinflight' = sinflight + 1
    /\ stats_ns' = [stats_ns EXCEPT ![key].pc = "inflight"]
    /\ UNCHANGED <<made, sub_last, sub_last_cpu, sub_data, sub_calls, sub_alpha>>
    /\ UNCHANGED <<transportVars, lock, slast, queryVars, controlVars,
                   tickVars, callVars, entVars>>

\* The request ends with outcome `out` (a 200 that parses decodes to `st`),
\* the permit goes back and _async_update_data computes the snapshot.
RefreshEnd(key, out, st) ==
    /\ key \in DOMAIN stats_ns
    /\ stats_ns[key].pc = "inflight"
    /\ sinflight' = sinflight - 1
    /\ stats_sem' = stats_sem + 1
    /\ slast' = [out |-> out, ret |-> stats_result(out)]
    /\ stats_bookkeeping(out)
    /\ LET coord == stats_ns[key]
           stats == fetched_stats(out, st)
           alpha == DEFAULT_STATS_SMOOTHING_ALPHA
           cpu_out == smoothed_cpu(alpha, coord.last_cpu, compute_cpu_percent(stats))
       IN  stats_ns' =
             IF no_stats(stats)
             THEN [stats_ns EXCEPT ![key].pc = "idle", ![key].last = no_data(coord.last)]
             ELSE [stats_ns EXCEPT ![key].pc = "idle", ![key].last_cpu = cpu_out,
                                   ![key].last = computed(stats, cpu_out)]
    /\ UNCHANGED <<made, sub_last, sub_last_cpu, sub_data, sub_calls, sub_alpha>>
    /\ UNCHANGED <<lock, swaiting, queryVars, controlVars, tickVars, callVars, entVars>>

----------------------------------------------------------------------------
(* Container entities: ContainerSensor, PortainerContainerSwitch,           *)
(* PortainerContainerRestartButton                                          *)

EntityKinds == {"sensor", "switch", "button"}

\* _attr_unique_id as __init__ computes it (the sensor's key is "state")
unique_id(kind, endpoint_id, container_name) ==
    CASE kind = "sensor" ->
            "portainer_container_" \o ToString(endpoint_id) \o "_" \o container_name
                \o "_state"
      [] kind = "switch" ->
            "portainer_container_" \o ToString(endpoint_id) \o "_" \o container_name
      [] kind = "button" ->
            "portainer_container_restart_" \o ToString(endpoint_id) \o "_" \o container_name

\* containers_by_name as the entity reads it
by_name_read == Get(raw_data, "containers_by_name", EmptyDict)

\* _resolve_current_container, the compose fallback: the records of the
\* entity's endpoint, stack and service. The loop returns the first of them
\* in the order of the index, which is the order of the API's list.
candidates(ent) ==
    IF ent.compose_stack = "" /\ ent.compose_service = "" THEN {}
    ELSE {c \in Range(ValuesOf(by_name_read)) :
             /\ c.EndpointId = ent.endpoint_id
             /\ c.Compose_Stack = ent.compose_stack
             /\ c.Compose_Service = ent.compose_service}

\* __init__ of an entity for container c of the published snapshot.
EntityCreate(kind, c) ==
    /\ entity = NoEntity
    /\ raw_data = last_good
    /\ c \in Range(ValuesOf(by_name_read))
    /\ entity' = [kind |-> kind,
                  endpoint_id |-> c.EndpointId,
                  container_name |-> c.Name,
                  compose_stack |-> c.Compose_Stack,
                  compose_service |-> c.Compose_Service,
                  unique_id |-> unique_id(kind, c.EndpointId, c.Name),
                  current |-> c,
                  created_for |-> c]
    /\ UNCHANGED <<tickVars, transportVars, apiVars, callVars, subVars, setupVars>>

\* _handle_coordinator_update after a tick has published its snapshot:
\* _resolve_current_container looks the entity up by endpoint and name, else
\* by compose stack and service, and adopts the name of the record it finds.
EntityUpdate ==
    /\ entity # NoEntity
    /\ entity.kind \in EntityKinds
    /\ raw_data = last_good
    /\ LET key == ToString(entity.endpoint_id) \o ":" \o entity.container_name
       IN  IF key \in DOMAIN by_name_read
           THEN entity' = [entity EXCEPT !.current = by_name_read[key]]
           ELSE IF candidates(entity) # {}
           THEN \E cand \in candidates(entity) :
                   entity' = [entity EXCEPT !.current = cand,
                                            !.container_name = cand.Name]
           ELSE entity' = [entity EXCEPT !.current = EmptyDict]
    /\ UNCHANGED <<tickVars, transportVars, apiVars, callVars, subVars, setupVars>>

\* _resolve_current_container(): the record under the entity's key, else a
\* record of its compose stack and service, else None. What `available`
\* needs of it is whether it finds one.
resolves(ent) ==
    \/ ToString(ent.endpoint_id) \o ":" \o ent.container_name \in DOMAIN by_name_read
    \/ candidates(ent) # {}

\* stacks as the entities read it
stacks_read == Get(raw_data, "stacks", EmptyDict)

\* StackContainersSensor.__init__ for stack s of the published snapshot.
StackEntityCreate(s) ==
    /\ entity = NoEntity
    /\ raw_data = last_good
    /\ s \in Range(ValuesOf(stacks_read))
    /\ entity' = [kind |-> "stack_containers",
                  endpoint_id |-> s.EndpointId,
                  stack_id |-> s.Id,
                  stack_name |-> s.Name]
    /\ UNCHANGED <<tickVars, transportVars, apiVars, callVars, subVars, setupVars>>

\* The `available` property: ContainerSensor, PortainerContainerSwitch and
\* PortainerContainerRestartButton return whether the container resolves,
\* StackContainersSensor returns coordinator.connected().
available(ent) ==
    IF ent.kind = "stack_containers" THEN connected ELSE resolves(ent)

\* The control actions an entity of each kind triggers.
EntityActions(kind) ==
    CASE kind = "switch" -> {"start_container", "stop_container"}
      [] kind = "button" -> {"restart_container"}
      [] OTHER           -> {}

\* The caller of PortainerControl on behalf of the entity.
EntityCaller == CHOOSE t \in ControlCallers : TRUE

\* async_turn_on, async_turn_off and async_press up to the executor job:
\* _resolve_current_container() (which adopts the name of a record found by
\* compose stack and service), then nothing when it found none, else the
\* control call for the entity's endpoint and the record's Id.
EntityAct(action) ==
    /\ entity # NoEntity
    /\ action \in EntityActions(entity.kind)
    /\ result = NoCall
    /\ cpc[EntityCaller] = "idle"
    /\ LET key == ToString(entity.endpoint_id) \o ":" \o entity.container_name
           send(current) ==
               /\ cpc' = [cpc EXCEPT ![EntityCaller] = "posting"]
               /\ creq' = [creq EXCEPT ![EntityCaller] =
                             [action |-> action,
                              service |-> ControlService(action, entity.endpoint_id,
                                                         current.Id)]]
               /\ cout' = [cout EXCEPT ![EntityCaller] = NoOutcome]
               /\ cret' = [cret EXCEPT ![EntityCaller] = Pending]
               /\ result' = [fn |-> action, sent |-> TRUE]
       IN  IF key \in DOMAIN by_name_read
           THEN /\ send(by_name_read[key])
                /\ UNCHANGED entity
           ELSE IF candidates(entity) # {}
           THEN \E cand \in candidates(entity) :
                   /\ send(cand)
                   /\ entity' = [entity EXCEPT !.container_name = cand.Name]
           ELSE /\ result' = [fn |-> action, sent |-> FALSE]
                /\ UNCHANGED <<entity, controlVars>>
    /\ UNCHANGED <<arg, transportVars, lock, stats_sem, queryVars, statsVars, tickVars, subVars,
                   setupVars>>

\* The rest of the handler: the executor job has returned (or nothing was
\* sent and the handler returned early); after a request the handler asks
\* for a refresh, which starts a tick unless one is already under way.
EntityActDone ==
    /\ result # NoCall
    /\ result.fn \in ControlActions
    /\ IF result.sent
       THEN /\ cpc[EntityCaller] = "returned"
            /\ cpc' = [cpc EXCEPT ![EntityCaller] = "idle"]
            /\ creq' = [creq EXCEPT ![EntityCaller] = NoRequest]
            /\ cout' = [cout EXCEPT ![EntityCaller] = NoOutcome]
            /\ cret' = [cret EXCEPT ![EntityCaller] = Pending]
            /\ IF tpc["requested"] = "idle"
               THEN /\ tpc' = [tpc EXCEPT !["requested"] = "acquiring"]
                    /\ tstages' = [tstages EXCEPT !["requested"] = << >>]
                    /\ tqueries' = [tqueries EXCEPT !["requested"] = {}]
                    /\ tfound' = [tfound EXCEPT !["requested"] = {}]
                    /\ tret' = [tret EXCEPT !["requested"] = "pending"]
               ELSE UNCHANGED <<tpc, tstages, tqueries, tfound, tret>>
       ELSE UNCHANGED <<controlVars, tpc, tstages, tqueries, tfound, tret>>
    /\ result' = NoCall
    /\ UNCHANGED <<arg, entVars, tick_lock, tloop, raw_data, data, last_good>>
    /\ UNCHANGED <<transportVars, lock, stats_sem, queryVars, statsVars, subVars>>

\* str.lower() on the container states that occur.
lower(s) ==
    CASE s = "Running"    -> "running"
      [] s = "Restarting" -> "restarting"
      [] s = "Exited"     -> "exited"
      [] OTHER            -> s

\* A slip: the containers of every endpoint are counted.
stack_counts_any_endpoint(by_name, endpoint_id, stack_name) ==
    LET relevant == {k \in DOMAIN by_name : by_name[k].Compose_Stack = stack_name}
        running  == {k \in relevant : lower(by_name[k].State) \in {"running", "restarting"}}
    IN  [running |-> Cardinality(running), total |-> Cardinality(relevant)]

\* StackContainersSensor._counts over containers_by_name
stack_counts(by_name, endpoint_id, stack_name) ==
    LET relevant == {k \in DOMAIN by_name :
                        /\ by_name[k].EndpointId = endpoint_id
                        /\ by_name[k].Compose_Stack = stack_name}
        running  == {k \in relevant : lower(by_name[k].State) \in {"running", "restarting"}}
    IN  [running |-> Cardinality(running), total |-> Cardinality(relevant)]

\* native_value and the counts among extra_state_attributes
stack_sensor_state(by_name, endpoint_id, stack_name) ==
    LET c == stack_counts(by_name, endpoint_id, stack_name)
    IN  [native_value |-> ToString(c.running) \o "/" \o ToString(c.total),
         running |-> c.running,
         total |-> c.total,
         stopped |-> IF c.total - c.running > 0 THEN c.total - c.running ELSE 0]

----------------------------------------------------------------------------
(* device_ids.py: device identifiers *)

\* A Python str is the sequence of its characters; the literal pieces of an
\* f-string ("container_", "stack_", "Container: ") are kept as one item each.
DOMAIN_PORTAINER == "portainer"

\* None where a str is expected: the one item is no character.
NoneStr == <<"None">>

\* str.lower() on the characters in use
lower_char(ch) ==
    CASE ch = "M" -> "m"
      [] ch = "A" -> "a"
      [] ch = "W" -> "w"
      [] OTHER    -> ch

\* str.isalnum() on the characters in use
isalnum(ch) == ch \in {"a", "b", "c", "d", "e", "m", "p", "w", "y", "1",
                       "M", "A", "W"}

RECURSIVE lstrip(_)
lstrip(s) == IF s # << >> /\ Head(s) = " " THEN lstrip(Tail(s)) ELSE s

RECURSIVE rstrip(_)
rstrip(s) ==
    IF s # << >> /\ s[Len(s)] = " " THEN rstrip(SubSeq(s, 1, Len(s) - 1)) ELSE s

\* str.strip()
strip(s) == rstrip(lstrip(s))

\* slug: lowercase, spaces -> _, every other character that is neither
\* alphanumeric nor _ nor - becomes _
slug(val) ==
    LET s == [i \in 1..Len(strip(val)) |->
                 LET ch == lower_char(strip(val)[i])
                 IN  IF ch = " " THEN "_" ELSE ch]
    IN  [i \in 1..Len(s) |->
            IF isalnum(s[i]) \/ s[i] \in {"_", "-"} THEN s[i] ELSE "_"]

\* Python truthiness of a str | None
truthy(s) == s # NoneStr /\ s # << >>

endpoint_identifier(endpoint_id) ==
    <<DOMAIN_PORTAINER, <<"endpoint_", ToString(endpoint_id)>>>>

container_identifiers(endpoint_id, container_name, compose_stack, compose_service) ==
    {<<DOMAIN_PORTAINER,
       <<"container_", ToString(endpoint_id), "_">> \o slug(container_name)>>}
    \cup
    (IF truthy(compose_stack) /\ truthy(compose_service)
        THEN {<<DOMAIN_PORTAINER,
                <<"container_", ToString(endpoint_id), "_">>
                    \o slug(compose_stack) \o <<"_">> \o slug(compose_service)>>}
        ELSE {})

container_device_info(endpoint_id, container_name, compose_stack, compose_service) ==
    LET idents == container_identifiers(endpoint_id, container_name,
                                        compose_stack, compose_service)
        parent == IF truthy(compose_stack)
                     THEN <<DOMAIN_PORTAINER,
                            <<"stack_", ToString(endpoint_id), "_">>
                                \o slug(compose_stack)>>
                     ELSE endpoint_identifier(endpoint_id)
    IN  [identifiers  |-> idents,
         name         |-> <<"Container: ">> \o container_name,
         manufacturer |-> "Portainer",
         via_device   |-> parent]

\* The device_info property of ContainerSensor, ContainerStatsSensor,
\* PortainerContainerSwitch and PortainerContainerRestartButton.
device_info(ent) ==
    container_device_info(ent.endpoint_id, ent.container_name,
                          ent.compose_stack, ent.compose_service)

----------------------------------------------------------------------------
(* sensor.py and button.py: adding entities when the coordinator has       *)
(* published an update                                                      *)

\* The invocations of sensor.py's async_update_controller that can be under
\* way at once: the dispatcher starts one per "<entry_id>_update" signal.
UpdateHandlers == {"first", "second"}

NoPending == [base |-> << >>, stats |-> << >>, stack |-> << >>]

\* A sensor entity as the handler sees it: unique_id ("" when it has none),
\* name ("" when it has none), and whether it is a
\* PortainerContainerStatsSensor, a StackContainersSensor or another sensor.
SensorEntity(uid, name, cls) == [unique_id |-> uid, name |-> name, cls |-> cls]

\* The characters of s, joined.
RECURSIVE Join(_)
Join(s) == IF s = << >> THEN "" ELSE Head(s) \o Join(Tail(s))

\* re.sub("-{2,}", "-", s)
RECURSIVE collapse_dashes(_)
collapse_dashes(s) ==
    IF Len(s) < 2 THEN s
    ELSE IF s[1] = "-" /\ s[2] = "-" THEN collapse_dashes(Tail(s))
    ELSE <<s[1]>> \o collapse_dashes(Tail(s))

\* str.strip("-")
RECURSIVE strip_dashes(_)
strip_dashes(s) ==
    IF s # << >> /\ Head(s) = "-" THEN strip_dashes(Tail(s))
    ELSE IF s # << >> /\ s[Len(s)] = "-" THEN strip_dashes(SubSeq(s, 1, Len(s) - 1))
    ELSE s

\* _slugify_stack_name: stripped, lowercase, "_" and " " and every run of
\* characters outside a-z, 0-9 and "-" become one "-", dashes at the ends
\* go; "unnamed" when nothing is left.
slugify_stack_name(name) ==
    LET stripped == strip(name)
        base == [i \in 1..Len(stripped) |->
                    LET ch == lower_char(stripped[i])
                    IN  IF ch \in {"_", " "} THEN "-"
                        ELSE IF isalnum(ch) \/ ch = "-" THEN ch ELSE "-"]
        out == strip_dashes(collapse_dashes(base))
    IN  IF out = << >> THEN <<"u", "n", "n", "a", "m", "e", "d">> ELSE out

\* StackContainersSensor.__init__: the legacy unique id (by stack id) when
\* the entity registry has it, else the canonical one (by name slug).
stack_canonical_uid(stack) ==
    "portainer_stack_containers_" \o ToString(stack.EndpointId) \o "_"
        \o Join(slugify_stack_name(stack.Name))
stack_legacy_uid(stack) ==
    "portainer_stack_containers_" \o ToString(stack.EndpointId) \o "_" \o stack.Id

StackContainersSensor(stack, registry) ==
    SensorEntity(IF stack_legacy_uid(stack) \in registry
                 THEN stack_legacy_uid(stack) ELSE stack_canonical_uid(stack),
                 "Stack Containers: " \o Join(stack.Name), "stack")

\* _create_stack_sensors: one sensor per stack, and the canonical ids that
\* the adopting constructors put into the alias set.
create_stack_sensors(stacks, registry) ==
    [i \in 1..Len(stacks) |-> StackContainersSensor(stacks[i], registry)]
stack_aliases(stacks, registry) ==
    {stack_canonical_uid(stacks[i]) :
        i \in {j \in 1..Len(stacks) : stack_legacy_uid(stacks[j]) \in registry}}

\* _collect_existing_uids
collect_existing_uids == platform_uids \cup registry_uids \cup created_uids \cup alias_uids

\* _find_new_entities(entities, existing_unique_ids): the entities kept and
\* the set as the loop leaves it.
skips(e, existing) ==
    e.unique_id = "" \/ e.name = "" \/ Strip(e.name) = "" \/ e.unique_id \in existing

RECURSIVE find_new_entities(_, _)
find_new_entities(entities, existing) ==
    IF entities = << >> THEN [new |-> << >>, known |-> existing]
    ELSE LET e == Head(entities)
         IN  IF skips(e, existing)
             THEN find_new_entities(Tail(entities), existing)
             ELSE LET rest == find_new_entities(Tail(entities),
                                                existing \cup {e.unique_id})
                  IN  [new |-> <<e>> \o rest.new, known |-> rest.known]

UidsOf(entities) == {entities[i].unique_id : i \in DOMAIN entities} \ {""}

\* The batches that are handed over: `if base_new:`, `if stats_new:`,
\* `if new_stack_sensors:`.
NonEmpty(batches) == SelectSeq(batches, LAMBDA b : b # << >>)

\* _handle_update_controller up to its first await: the known ids are
\* collected, the candidates are built and filtered.
UpdateStart(h, entities, stacks) ==
    /\ upc[h] = "idle"
    /\ LET found == find_new_entities(entities, collect_existing_uids)
           new_stack == find_new_entities(create_stack_sensors(stacks, registry_uids),
                                          found.known)
       IN  upending' = [upending EXCEPT ![h] =
               [base  |-> SelectSeq(found.new, LAMBDA e : e.cls # "stats"),
                stats |-> SelectSeq(found.new, LAMBDA e : e.cls = "stats"),
                stack |-> new_stack.new]]
    /\ alias_uids' = alias_uids \cup stack_aliases(stacks, registry_uids)
    /\ upc' = [upc EXCEPT ![h] = "executor"]
    /\ added' = << >>
    /\ UNCHANGED <<platform_uids, registry_uids, created_uids, controls, button_created>>
    /\ UNCHANGED <<entity, tickVars, transportVars, apiVars, callVars, subVars>>

\* The executor job has returned: the base entities and the stats sensors
\* are recorded and added; with stats sensors the handler awaits their first
\* refresh before it turns to the stack sensors. An entity handed to
\* async_add_entities_callback is held by the platform and has its unique id
\* in the entity registry.
UpdateAdd(h) ==
    /\ upc[h] = "executor"
    /\ LET p == upending[h]
           now == IF p.stats = << >> THEN <<p.base, p.stats, p.stack>>
                  ELSE <<p.base, p.stats>>
           uids == UNION {UidsOf(now[i]) : i \in DOMAIN now}
       IN  /\ created_uids' = created_uids \cup uids
           /\ platform_uids' = platform_uids \cup uids
           /\ registry_uids' = registry_uids \cup uids
           /\ added' = NonEmpty(now)
           /\ IF p.stats = << >>
              THEN /\ upc' = [upc EXCEPT ![h] = "idle"]
                   /\ upending' = [upending EXCEPT ![h] = NoPending]
              ELSE /\ upc' = [upc EXCEPT ![h] = "gather"]
                   /\ upending' = [upending EXCEPT ![h] =
                                     [base |-> << >>, stats |-> << >>, stack |-> p.stack]]
    /\ UNCHANGED <<alias_uids, controls, button_created>>
    /\ UNCHANGED <<entity, tickVars, transportVars, apiVars, callVars, subVars>>

\* The stats sensors' refresh requests have returned: the stack sensors are
\* recorded and added.
UpdateStacks(h) ==
    /\ upc[h] = "gather"
    /\ LET uids == UidsOf(upending[h].stack)
       IN  /\ created_uids' = created_uids \cup uids
           /\ platform_uids' = platform_uids \cup uids
           /\ registry_uids' = registry_uids \cup uids
    /\ added' = NonEmpty(<<upending[h].stack>>)
    /\ upc' = [upc EXCEPT ![h] = "idle"]
    /\ upending' = [upending EXCEPT ![h] = NoPending]
    /\ UNCHANGED <<alias_uids, controls, button_created>>
    /\ UNCHANGED <<entity, tickVars, transportVars, apiVars, callVars, subVars>>

\* PortainerContainerRestartButton.__init__ for record c.
RestartButton(c) ==
    [kind |-> "button", endpoint_id |-> c.EndpointId, container_name |-> c.Name,
     compose_stack |-> c.Compose_Stack, compose_service |-> c.Compose_Service,
     unique_id |-> unique_id("button", c.EndpointId, c.Name),
     name |-> "Restart: " \o c.Name]

\* button.py _async_update_controller, which has no await: a button is
\* built for every record of containers_by_name whose unique id is not in
\* `created`.
RECURSIVE new_restart_buttons(_, _)
new_restart_buttons(records, created) ==
    IF records = << >> THEN << >>
    ELSE LET c == Head(records)
             uid == unique_id("button", c.EndpointId, c.Name)
         IN  IF uid \in created THEN new_restart_buttons(Tail(records), created)
             ELSE <<RestartButton(c)>>
                      \o new_restart_buttons(Tail(records), created \cup {uid})

ButtonUpdate ==
    /\ raw_data = last_good
    /\ LET batch == new_restart_buttons(ValuesOf(by_name_read), button_created)
       IN  /\ batch # << >>
           /\ button_created' = button_created \cup UidsOf(batch)
           /\ controls' = [u \in (DOMAIN controls) \cup UidsOf(batch) |->
                            IF u \in DOMAIN controls THEN controls[u]
                            ELSE LET i == CHOOSE j \in DOMAIN batch : batch[j].unique_id = u
                                 IN  batch[i]]
           /\ added' = <<batch>>
    /\ UNCHANGED <<platform_uids, registry_uids, created_uids, alias_uids, upc, upending>>
    /\ UNCHANGED <<entity, tickVars, transportVars, apiVars, callVars, subVars>>

\* PortainerContainerSwitch.__init__ for record c.
ContainerSwitch(c) ==
    [kind |-> "switch", endpoint_id |-> c.EndpointId, container_name |-> c.Name,
     compose_stack |-> c.Compose_Stack, compose_service |-> c.Compose_Service,
     unique_id |-> unique_id("switch", c.EndpointId, c.Name),
     name |-> "Container: " \o c.Name]

\* switch.py async_setup_entry, which runs once, after a refresh: one switch
\* per record of containers_by_name.
SwitchSetup ==
    /\ raw_data = last_good
    /\ \A u \in DOMAIN controls : controls[u].kind # "switch"
    /\ LET records == ValuesOf(by_name_read)
           batch == [i \in 1..Len(records) |-> ContainerSwitch(records[i])]
       IN  /\ batch # << >>
           /\ controls' = [u \in (DOMAIN controls) \cup UidsOf(batch) |->
                             IF u \in DOMAIN controls THEN controls[u]
                             ELSE LET i == CHOOSE j \in DOMAIN batch : batch[j].unique_id = u
                                  IN  batch[i]]
           /\ added' = <<batch>>
    /\ UNCHANGED <<platform_uids, registry_uids, created_uids, alias_uids, upc, upending,
                   button_created>>
    /\ UNCHANGED <<entity, tickVars, transportVars, apiVars, callVars, subVars>>

\* _resolve_current_container of button or switch u, reached through
\* `available` or an action: when the record under the entity's key is gone
\* and a record of its compose stack and service is there, the entity adopts
\* that record's name.
ControlResolve(u) ==
    /\ raw_data = last_good
    /\ u \in DOMAIN controls
    /\ ToString(controls[u].endpoint_id) \o ":" \o controls[u].container_name
          \notin DOMAIN by_name_read
    /\ \E cand \in candidates(controls[u]) :
          /\ cand.Name # ""
          /\ controls' = [controls EXCEPT ![u].container_name = cand.Name]
    /\ UNCHANGED <<platform_uids, registry_uids, created_uids, alias_uids, upc, upending,
                   added, button_created>>
    /\ UNCHANGED <<entity, tickVars, transportVars, apiVars, callVars, subVars>>

----------------------------------------------------------------------------
(* Specifications *)

\* PortainerAPI.__init__ and PortainerControl.__init__; no call in progress.
ApiInit ==
    /\ connected = FALSE
    /\ error = ""
    /\ fail_counts = [s \in Services \cup {ContainerService(e) : e \in TickEndpointIds} |-> 0]
    /\ lock = NoThread
    /\ stats_sem = STATS_MAX_CONCURRENCY
    /\ qpc = [t \in QueryCallers |-> "idle"]
    /\ qarg = [t \in QueryCallers |-> [service |-> "", method |-> ""]]
    /\ qout = [t \in QueryCallers |-> NoOutcome]
    /\ qret = [t \in QueryCallers |-> Pending]
    /\ swaiting = 0
    /\ sinflight = 0
    /\ slast = [out |-> NoOutcome, ret |-> Pending]
    /\ cpc = [c \in ControlCallers |-> "idle"]
    /\ creq = [c \in ControlCallers |-> NoRequest]
    /\ cout = [c \in ControlCallers |-> NoOutcome]
    /\ cret = [c \in ControlCallers |-> Pending]

\* PortainerCoordinator.__init__; no tick in progress.
TickInit ==
    /\ tick_lock = FALSE
    /\ tpc = [t \in Ticks |-> "idle"]
    /\ tloop = [t \in Ticks |-> {}]
    /\ tstages = [t \in Ticks |-> << >>]
    /\ tqueries = [t \in Ticks |-> {}]
    /\ tfound = [t \in Ticks |-> {}]
    /\ tret = [t \in Ticks |-> "pending"]
    /\ raw_data = InitialRawData
    /\ data = ConfigEntryData
    /\ last_good = InitialRawData

\* sensor.py and button.py async_setup_entry before anything is added: the
\* sets are empty, no update handler is running.
SetupInit ==
    /\ platform_uids = {}
    /\ registry_uids = {}
    /\ created_uids = {}
    /\ alias_uids = {}
    /\ upc = [h \in UpdateHandlers |-> "idle"]
    /\ upending = [h \in UpdateHandlers |-> NoPending]
    /\ added = << >>
    /\ controls = EmptyDict
    /\ button_created = {}

\* The stats coordinator as its __init__ leaves it, the registry empty.
SubInit ==
    /\ sub_last = None
    /\ sub_last_cpu = None
    /\ sub_data = None
    /\ sub_calls = << >>
    /\ sub_alpha = DEFAULT_STATS_SMOOTHING_ALPHA
    /\ stats_ns = EmptyDict
    /\ made = 0

RestInit ==
    /\ SetupInit
    /\ entity = NoEntity
    /\ SubInit

Init ==
    /\ ApiInit
    /\ TickInit
    /\ RestInit
    /\ arg = NoCall
    /\ result = NoCall

\* The inventory poll beside the stats and control paths: one caller polling
\* the liveness service.
PollOutcomes == {Resp(200, JsonBody("p1")), Resp(500, Malformed)}

PollCall       == QueryCall(1, "endpoints", "get")
PollAcquire    == QueryAcquire(1)
PollSend       == QuerySend(1)
PollRespond    == \E out \in PollOutcomes : QueryRespond(1, out)
PollReturn     == QueryReturn(1)

\* One caller of query(), every service, method and outcome.
NextQuery ==
    \/ \E s \in Services, m \in Methods : QueryCall(1, s, m)
    \/ QueryAcquire(1)
    \/ QuerySend(1)
    \/ QueryUnsupported(1)
    \/ \E out \in QueryOutcomes : QueryRespond(1, out)
    \/ QueryReturn(1)

SpecQuery == Init /\ [][NextQuery]_vars

\* Concurrent callers of query().
NextMutex ==
    \/ \E t \in QueryCallers, m \in {"get", "delete"} : QueryCall(t, "endpoints", m)
    \/ \E t \in QueryCallers : QueryAcquire(t)
    \/ \E t \in QueryCallers : QuerySend(t)
    \/ \E t \in QueryCallers : QueryUnsupported(t)
    \/ \E t \in QueryCallers, out \in PollOutcomes \cup {Exc("ValueError")} :
            QueryRespond(t, out)
    \/ \E t \in QueryCallers : QueryReturn(t)

SpecMutex == Init /\ [][NextMutex]_vars

\* Concurrent callers of get_container_stats() beside the inventory poll.
NextStats ==
    \/ StatsCall
    \/ StatsAcquire
    \/ \E out \in StatsOutcomes : StatsRespond(out)
    \/ PollCall \/ PollAcquire \/ PollSend \/ PollRespond \/ PollReturn

SpecStats == Init /\ [][NextStats]_vars

\* A control action beside the inventory poll.
NextControl ==
    \/ \E c \in ControlCallers, a \in ControlActions, e \in EndpointIds, i \in TargetIds :
            ControlCall(c, a, e, i)
    \/ \E c \in ControlCallers, out \in ControlOutcomes : ControlRespond(c, out)
    \/ \E c \in ControlCallers : ControlReturn(c)
    \/ PollCall \/ PollAcquire \/ PollSend \/ PollRespond \/ PollReturn

SpecControl == Init /\ [][NextControl]_vars

\* One tick after the other, every answer of the API.
NextTick ==
    \/ TickStart("scheduled")
    \/ TickAcquire("scheduled")
    \/ \E out \in Answers(TickEndpointRows) : TickEndpoints("scheduled", out)
    \/ TickContainersEnter("scheduled")
    \/ TickContainersSkip("scheduled")
    \/ \E out \in Answers(TickContainerRows) : TickContainersFetch("scheduled", out)
    \/ TickContainersIndex("scheduled")
    \/ TickStacksNoEndpoints("scheduled")
    \/ \E out \in Answers(TickStackRows) : TickStacks("scheduled", out)
    \/ TickSystem("scheduled")
    \/ TickReturn("scheduled")

SpecTick == Init /\ [][NextTick]_vars

\* Ticks beside each other and async_shutdown; the API answers every query,
\* with an inventory of endpoints without containers or stacks.
LockEndpointRows == { {}, {EP(1, "local", 1, <<Snap("24.0")>>)} }

NextTickLock ==
    \/ \E t \in Ticks : TickStart(t)
    \/ \E t \in Ticks : TickAcquire(t)
    \/ \E t \in Ticks : TickTimeout(t)
    \/ \E t \in Ticks, r \in LockEndpointRows : TickEndpoints(t, Resp(200, JsonBody(r)))
    \/ \E t \in Ticks : TickContainersEnter(t)
    \/ \E t \in Ticks : TickContainersSkip(t)
    \/ \E t \in Ticks : TickContainersFetch(t, Resp(200, JsonBody({})))
    \/ \E t \in Ticks : TickContainersIndex(t)
    \/ \E t \in Ticks : TickStacksNoEndpoints(t)
    \/ \E t \in Ticks : TickStacks(t, Resp(200, JsonBody({})))
    \/ \E t \in Ticks : TickSystem(t)
    \/ \E t \in Ticks : TickReturn(t)
    \/ Shutdown

SpecTickLock == Init /\ [][NextTickLock]_vars

\* Ticks beside each other, any of which may be cancelled while it awaits a
\* stage; the API answers or fails the endpoints query.
NextCancel ==
    \/ \E t \in Ticks : TickStart(t)
    \/ \E t \in Ticks : TickAcquire(t)
    \/ \E t \in Ticks : TickTimeout(t)
    \/ \E t \in Ticks, out \in Answers(LockEndpointRows) : TickEndpoints(t, out)
    \/ \E t \in Ticks : TickContainersEnter(t)
    \/ \E t \in Ticks : TickContainersFetch(t, Resp(200, JsonBody({})))
    \/ \E t \in Ticks : TickContainersIndex(t)
    \/ \E t \in Ticks : TickStacksNoEndpoints(t)
    \/ \E t \in Ticks : TickStacks(t, Resp(200, JsonBody({})))
    \/ \E t \in Ticks : TickSystem(t)
    \/ \E t \in Ticks : TickCancel(t)
    \/ \E t \in Ticks : TickReturn(t)

SpecCancel == Init /\ [][NextCancel]_vars

\* A compose project with two replicas of its service "web" and a service
\* "db", before and after its containers were recreated under new names;
\* entities are created and updated between the ticks.
RenameRows ==
    { {CT("id1", <<"/app_web_1">>, "running", "app", "web"),
       CT("id2", <<"/app_web_2">>, "running", "app", "web"),
       CT("id5", <<"/app_db_1">>, "running", "app", "db")},
      {CT("id3", <<"/app-web-1">>, "running", "app", "web"),
       CT("id4", <<"/app-web-2">>, "running", "app", "web"),
       CT("id6", <<"/app-db-1">>, "running", "app", "db")} }

NextEntity ==
    \/ TickStart("scheduled")
    \/ TickAcquire("scheduled")
    \/ TickEndpoints("scheduled", Resp(200, JsonBody({EP(1, "local", 1, <<Snap("24.0")>>)})))
    \/ TickContainersEnter("scheduled")
    \/ \E r \in RenameRows : TickContainersFetch("scheduled", Resp(200, JsonBody(r)))
    \/ TickContainersIndex("scheduled")
    \/ TickStacks("scheduled", Resp(200, JsonBody({})))
    \/ TickSystem("scheduled")
    \/ TickReturn("scheduled")
    \/ \E kind \in EntityKinds, c \in Range(ValuesOf(by_name_read)) : EntityCreate(kind, c)
    \/ EntityUpdate

SpecEntity == Init /\ [][NextEntity]_vars

\* Ticks one after the other over an inventory that comes and goes: the
\* endpoints query succeeds or fails, the project "app" (one container, one
\* stack) is there or not; entities are created from published snapshots.
AvailContainerRows == { {}, {CT("id1", <<"/app_web_1">>, "running", "app", "web")} }
AvailStackRows == { {}, {ST(7, "app", 1)} }

NextAvail ==
    \/ TickStart("scheduled")
    \/ TickAcquire("scheduled")
    \/ \E out \in {Resp(200, JsonBody({EP(1, "local", 1, <<Snap("24.0")>>)})),
                    Resp(500, Malformed)} : TickEndpoints("scheduled", out)
    \/ TickContainersEnter("scheduled")
    \/ \E r \in AvailContainerRows : TickContainersFetch("scheduled", Resp(200, JsonBody(r)))
    \/ TickContainersIndex("scheduled")
    \/ \E r \in AvailStackRows : TickStacks("scheduled", Resp(200, JsonBody(r)))
    \/ TickSystem("scheduled")
    \/ TickReturn("scheduled")
    \/ \E kind \in EntityKinds, c \in Range(ValuesOf(by_name_read)) : EntityCreate(kind, c)
    \/ \E s \in Range(ValuesOf(stacks_read)) : StackEntityCreate(s)
    \/ EntityUpdate

SpecAvail == Init /\ [][NextAvail]_vars

\* A switch or a restart button of the service "web" of project "app",
\* whose container is recreated under a new name and id, or goes away; the
\* user triggers the entity at any moment, the scheduled tick and the
\* refreshes the actions request run beside it.
ActRows ==
    { {},
      {CT("id1", <<"/app_web_1">>, "running", "app", "web")},
      {CT("id3", <<"/app-web-1">>, "exited", "app", "web")} }

NextAct ==
    \/ TickStart("scheduled")
    \/ \E t \in Ticks : TickAcquire(t)
    \/ \E t \in Ticks : TickTimeout(t)
    \/ \E t \in Ticks :
            TickEndpoints(t, Resp(200, JsonBody({EP(1, "local", 1, <<Snap("24.0")>>)})))
    \/ \E t \in Ticks : TickContainersEnter(t)
    \/ \E t \in Ticks, r \in ActRows : TickContainersFetch(t, Resp(200, JsonBody(r)))
    \/ \E t \in Ticks : TickContainersIndex(t)
    \/ \E t \in Ticks : TickStacks(t, Resp(200, JsonBody({})))
    \/ \E t \in Ticks : TickSystem(t)
    \/ \E t \in Ticks : TickReturn(t)
    \/ \E kind \in {"switch", "button"}, c \in Range(ValuesOf(by_name_read)) :
            EntityCreate(kind, c)
    \/ EntityUpdate
    \/ \E action \in ControlActions : EntityAct(action)
    \/ \E out \in {Resp(204, Malformed), Resp(500, Malformed)} :
            ControlRespond(EntityCaller, out)
    \/ EntityActDone

SpecAct == Init /\ [][NextAct]_vars

\* get_stacks applied to the raw_data get_endpoints and get_containers have
\* built: endpoints 1 and 3 online, endpoint 2 offline; up to MaxContainers
\* containers out of a pool (compose projects "myapp" and "edge", and a
\* container without compose labels); the stacks query fails, returns
\* nothing, or returns stacks of the offline and of an online endpoint.
StackEndpointRows ==
    {EP(1, "local", 1, <<Snap("24.0")>>), EP(2, "edge", 2, <<Snap("20.10")>>),
     EP(3, "nas", 1, <<Snap("24.0")>>)}

ContainerPool ==
    [e \in {1, 3} |->
        IF e = 1
        THEN {CT("a", <<"/web_1">>, "running", "myapp", "web"),
              CT("b", <<"/db_1">>, "exited", "myapp", "db"),
              CT("c", <<"/cache_1">>, "running", "edge", "cache"),
              CT("d", <<"/solo">>, "running", "", "")}
        ELSE {CT("e", <<"/web_1">>, "running", "myapp", "web")}]

\* What query("stacks") handed back: a list of rows, or None (ok is FALSE).
StackSources ==
    {[ok |-> FALSE, rows |-> {}]}
        \cup {[ok |-> TRUE, rows |-> r] :
                 r \in SUBSET {ST(7, "legacy", 2), ST(8, "real", 1)}}

SourceOf(a) == IF a.ok THEN RetData(a.rows) ELSE RetNone

\* raw_data after get_endpoints and get_containers, for the containers the
\* two online endpoints report
RawDataWith(rows1, rows3) ==
    LET r0 == get_endpoints(EmptyDict, RetData(StackEndpointRows)).rd
        r1 == containers_for_endpoint(Put(r0, "containers", EmptyDict), 1, RetData(rows1)).rd
        r3 == containers_for_endpoint(r1, 3, RetData(rows3)).rd
    IN  containers_indexed(r3)

StackInputs ==
    {[fn |-> "get_stacks", rd |-> RawDataWith(rows1, rows3), source |-> src] :
        rows1 \in {r \in SUBSET ContainerPool[1] : Cardinality(r) <= MaxContainers},
        rows3 \in SUBSET ContainerPool[3],
        src \in StackSources}

InitStacks ==
    /\ ApiInit
    /\ TickInit
    /\ RestInit
    /\ arg \in StackInputs
    /\ result = NoCall

\* get_stacks runs on the raw_data of the tick.
StacksCall ==
    /\ arg.fn = "get_stacks"
    /\ result = NoCall
    /\ result' = [fn |-> arg.fn,
                  rd |-> get_stacks(Put(arg.rd, "stacks", EmptyDict), SourceOf(arg.source)),
                  again |-> None]
    /\ UNCHANGED <<arg, tickVars, transportVars, apiVars, entVars, subVars>>

\* _fallback_stacks_from_containers runs once more, on the raw_data that
\* get_stacks left.
StacksAgain ==
    /\ result # NoCall
    /\ result.fn = "get_stacks"
    /\ result.again = None
    /\ result' = [result EXCEPT !.again = fallback_stacks_from_containers(result.rd)]
    /\ UNCHANGED <<arg, tickVars, transportVars, apiVars, entVars, subVars>>

NextStacks == StacksCall \/ StacksAgain

SpecStacks == InitStacks /\ [][NextStacks]_vars

\* The stack-containers sensor of each stack over each snapshot: up to
\* MaxContainers containers of endpoint 1 (projects "myapp" with running,
\* restarting and exited members, "edge", and a container of no project),
\* a "myapp" container on endpoint 3; the stacks "myapp" and "edge" of
\* either endpoint and a stack without containers.
CountPool ==
    {CT("a", <<"/web_1">>, "running", "myapp", "web"),
     CT("b", <<"/db_1">>, "exited", "myapp", "db"),
     CT("f", <<"/worker_1">>, "restarting", "myapp", "worker"),
     CT("c", <<"/cache_1">>, "running", "edge", "cache"),
     CT("d", <<"/solo">>, "running", "", "")}

CountStacks ==
    {[EndpointId |-> e, Name |-> n] : e \in {1, 3}, n \in {"myapp", "edge", "ghost"}}

CountInputs ==
    {[fn |-> "stack_counts", rd |-> RawDataWith(rows1, rows3), stack |-> s] :
        rows1 \in {r \in SUBSET CountPool : Cardinality(r) <= MaxContainers},
        rows3 \in SUBSET ContainerPool[3],
        s \in CountStacks}

InitCounts ==
    /\ ApiInit
    /\ TickInit
    /\ RestInit
    /\ arg \in CountInputs
    /\ result = NoCall

\* The sensor of stack arg.stack is read over the snapshot arg.rd.
CountsCall ==
    /\ arg.fn = "stack_counts"
    /\ result = NoCall
    /\ result' = [fn |-> arg.fn,
                  state |-> stack_sensor_state(arg.rd.containers_by_name,
                                               arg.stack.EndpointId, arg.stack.Name)]
    /\ UNCHANGED <<arg, tickVars, transportVars, apiVars, entVars, subVars>>

SpecCounts == InitCounts /\ [][CountsCall]_vars

\* Container entities of every kind, for containers named "c1" and
\* "my_app_web", with and without compose labels: the project "My App" and
\* service "Web" of the tests, names with a dot, a dash and surrounding blanks,
\* the empty label and no label.
DeviceEntityKinds == {"sensor", "stats_sensor", "switch", "button"}

DeviceNames == {<<"c", "1">>,
                <<"m", "y", "_", "a", "p", "p", "_", "w", "e", "b">>}

DeviceStacks == {NoneStr, << >>,
                 <<"M", "y", " ", "A", "p", "p">>,
                 <<"a", ".", "b">>,
                 <<" ", "d", "b", " ">>}

DeviceServices == {NoneStr, << >>, <<"W", "e", "b">>, <<"w", "-", "1">>}

DeviceInputs ==
    {[fn |-> "device_info",
      ent |-> [kind |-> k, endpoint_id |-> e, container_name |-> n,
               compose_stack |-> s, compose_service |-> v]] :
        k \in DeviceEntityKinds, e \in {1, 2}, n \in DeviceNames,
        s \in DeviceStacks, v \in DeviceServices}

InitDevice ==
    /\ ApiInit
    /\ TickInit
    /\ RestInit
    /\ arg \in DeviceInputs
    /\ result = NoCall

\* The device registry reads the entity's device_info.
DeviceInfoCall ==
    /\ arg.fn = "device_info"
    /\ result = NoCall
    /\ result' = [fn |-> arg.fn, info |-> device_info(arg.ent)]
    /\ UNCHANGED <<arg, tickVars, transportVars, apiVars, entVars, subVars>>

SpecDevice == InitDevice /\ [][DeviceInfoCall]_vars

\* compute_cpu_percent applied to stats payloads: the counters of the test
\* fixture (deltas 100,000,000 and 500,000,000), small counters, deltas that
\* do not divide evenly, no delta, counter resets and missing sections; the
\* CPU count reported as 0..MaxCpus or not at all, the per-CPU array of
\* length 0..MaxCpus or absent.
Counters(total, pre_total, system, pre_system) ==
    [k \in {"cpu_stats/cpu_usage/total_usage", "precpu_stats/cpu_usage/total_usage",
            "cpu_stats/system_cpu_usage", "precpu_stats/system_cpu_usage"} |->
        CASE k = "cpu_stats/cpu_usage/total_usage"    -> total
          [] k = "precpu_stats/cpu_usage/total_usage" -> pre_total
          [] k = "cpu_stats/system_cpu_usage"         -> system
          [] k = "precpu_stats/system_cpu_usage"      -> pre_system]

Without(f, keys) == [k \in (DOMAIN f) \ keys |-> f[k]]
Merge(f, g) == [k \in (DOMAIN f) \cup (DOMAIN g) |-> IF k \in DOMAIN f THEN f[k] ELSE g[k]]

CounterProfiles ==
    { Counters(1100000000, 1000000000, 1500000000, 1000000000),
      Counters(110, 10, 600, 100),
      Counters(20, 10, 130, 100),
      Counters(10, 10, 100, 100),
      Counters(5, 10, 600, 100),
      Counters(110, 10, 50, 100),
      Counters(110, 10, 100, 100),
      Without(Counters(110, 10, 600, 100),
              {"cpu_stats/cpu_usage/total_usage", "cpu_stats/system_cpu_usage"}),
      Without(Counters(110, 10, 600, 100),
              {"precpu_stats/cpu_usage/total_usage", "precpu_stats/system_cpu_usage"}) }

CpuCountParts ==
    {EmptyDict} \cup {[k \in {"cpu_stats/online_cpus"} |-> n] : n \in 0..MaxCpus}
PerCpuParts ==
    {EmptyDict} \cup {[k \in {"cpu_stats/cpu_usage/percpu_usage"} |-> [i \in 1..n |-> i]] :
                         n \in 0..MaxCpus}

CpuInputs ==
    {Merge(c, Merge(o, p)) : c \in CounterProfiles, o \in CpuCountParts, p \in PerCpuParts}

InitCpu ==
    /\ ApiInit
    /\ TickInit
    /\ RestInit
    /\ arg \in {[fn |-> "compute_cpu_percent", stats |-> st] : st \in CpuInputs}
    /\ result = NoCall

CpuCall ==
    /\ arg.fn = "compute_cpu_percent"
    /\ result = NoCall
    /\ result' = [fn |-> arg.fn, val |-> compute_cpu_percent(arg.stats)]
    /\ UNCHANGED <<arg, tickVars, transportVars, apiVars, entVars, subVars>>

SpecCpu == InitCpu /\ [][CpuCall]_vars

\* compute_memory_used_bytes and compute_memory_percent applied to memory
\* sections: each of usage, cache, inactive_file and limit absent, zero or
\* set (the fixture's 500,000,000 / 100,000,000 / 2,000,000,000 among them,
\* a cache above the usage, a negative limit), with and without exclusion.
Section(path, values) == {EmptyDict} \cup {[k \in {path} |-> v] : v \in values}

MemoryInputs ==
    {Merge(u, Merge(c, Merge(i, l))) :
        u \in Section("memory_stats/usage", {0, 300, 500000000}),
        c \in Section("memory_stats/stats/cache", {0, 100, 100000000, 600000000}),
        i \in Section("memory_stats/stats/inactive_file", {0, 50}),
        l \in Section("memory_stats/limit", {0 - 1, 0, 1000, 2000000000})}

InitMem ==
    /\ ApiInit
    /\ TickInit
    /\ RestInit
    /\ arg \in {[fn |-> "compute_memory", stats |-> st, exclude_cache |-> x] :
                    st \in MemoryInputs, x \in BOOLEAN}
    /\ result = NoCall

\* used = compute_memory_used_bytes(stats, exclude_cache=...);
\* pct = compute_memory_percent(stats, used)
MemCall ==
    /\ arg.fn = "compute_memory"
    /\ result = NoCall
    /\ LET used == compute_memory_used_bytes(arg.stats, arg.exclude_cache)
       IN  result' = [fn |-> arg.fn, used |-> used,
                      pct |-> compute_memory_percent(arg.stats, used)]
    /\ UNCHANGED <<arg, tickVars, transportVars, apiVars, entVars, subVars>>

SpecMem == InitMem /\ [][MemCall]_vars

\* The stats refreshes of one container: every outcome of the request, and
\* for a 200 that parses the objects Docker may send (the empty object, a
\* busy container, one with an uneven CPU ratio, an idle one without memory
\* section).
MemoryPart(usage, cache, limit) ==
    [k \in {"memory_stats/usage", "memory_stats/stats/cache", "memory_stats/limit"} |->
        CASE k = "memory_stats/usage"       -> usage
          [] k = "memory_stats/stats/cache" -> cache
          [] k = "memory_stats/limit"       -> limit]

SubPayloads ==
    { EmptyDict,
      Merge(Counters(110, 10, 600, 100),
            Merge([k \in {"cpu_stats/online_cpus"} |-> 4], MemoryPart(500, 100, 2000))),
      Merge(Counters(20, 10, 130, 100), MemoryPart(300, 0, 1000)),
      Counters(10, 10, 100, 100) }

NextSub == \E out \in StatsOutcomes, st \in SubPayloads : SubTick(out, st)

SpecSub == Init /\ [][NextSub]_vars

\* The stats refreshes of one container under each configured smoothing
\* factor (0 disables smoothing): a 200 with each object, and a 404.
Alphas == {Whole(0), Frac(1, 5), Frac(1, 2), Whole(1)}

InitSmooth ==
    /\ ApiInit
    /\ TickInit
    /\ arg = NoCall
    /\ result = NoCall
    /\ SetupInit
    /\ entity = NoEntity
    /\ sub_last = None
    /\ sub_last_cpu = None
    /\ sub_data = None
    /\ sub_calls = << >>
    /\ sub_alpha \in Alphas
    /\ stats_ns = EmptyDict
    /\ made = 0

NextSmooth ==
    \E out \in {Resp(200, JsonBody("p1")), Resp(404, Malformed)}, st \in SubPayloads :
        SubTick(out, st)

SpecSmooth == InitSmooth /\ [][NextSmooth]_vars

\* The stats sensors of two config entries ask for coordinators: "web" is
\* seen under two container ids (before and after its recreation), "db"
\* under one; the coordinator of "web" in the first entry refreshes in
\* between, with a busy container's payload or without data.
EntryIds == {CONFIG_ENTRY_ID, "entry2"}

StatsContainers ==
    { [EndpointId |-> 1, Name |-> "web", Id |-> "id1"],
      [EndpointId |-> 1, Name |-> "web", Id |-> "id2"],
      [EndpointId |-> 1, Name |-> "db",  Id |-> "id3"] }

RefreshOutcomes == {Resp(200, JsonBody("p1")), Resp(404, Malformed)}
BusyPayload ==
    Merge(Counters(110, 10, 600, 100),
          Merge([k \in {"cpu_stats/online_cpus"} |-> 4], MemoryPart(500, 100, 2000)))
Refreshing == {<<CONFIG_ENTRY_ID, "1:web">>}

NextRegistry ==
    \/ \E entry_id \in EntryIds, cont \in StatsContainers : StatsFactoryCall(entry_id, cont)
    \/ GetOrCreate
    \/ \E key \in Refreshing : RefreshStart(key)
    \/ \E key \in Refreshing : RefreshAcquire(key)
    \/ \E key \in Refreshing, out \in RefreshOutcomes : RefreshEnd(key, out, BusyPayload)

SpecRegistry == Init /\ [][NextRegistry]_vars

\* The stats coordinators of "web" and "db" refresh beside a main tick and
\* beside the executor job that runs query("endpoints") for it: the tick holds
\* PortainerCoordinator.lock, the job PortainerAPI.lock.
OverlapContainers ==
    { [EndpointId |-> 1, Name |-> "web", Id |-> "id1"],
      [EndpointId |-> 1, Name |-> "db",  Id |-> "id3"] }

Overlapping == {<<CONFIG_ENTRY_ID, "1:web">>, <<CONFIG_ENTRY_ID, "1:db">>}

NextOverlap ==
    \/ \E cont \in OverlapContainers : StatsFactoryCall(CONFIG_ENTRY_ID, cont)
    \/ GetOrCreate
    \/ \E key \in Overlapping : RefreshStart(key)
    \/ \E key \in Overlapping : RefreshAcquire(key)
    \/ \E key \in Overlapping, out \in RefreshOutcomes : RefreshEnd(key, out, BusyPayload)
    \/ TickStart("scheduled")
    \/ TickAcquire("scheduled")
    \/ TickEndpoints("scheduled",
                     Resp(200, JsonBody({EP(1, "local", 1, <<Snap("24.0")>>)})))
    \/ TickContainersEnter("scheduled")
    \/ TickContainersFetch("scheduled", Resp(200, JsonBody({})))
    \/ TickContainersIndex("scheduled")
    \/ TickStacks("scheduled", Resp(200, JsonBody({})))
    \/ TickSystem("scheduled")
    \/ TickReturn("scheduled")
    \/ QueryCall(1, "endpoints", "get")
    \/ QueryAcquire(1)
    \/ QuerySend(1)
    \/ QueryRespond(1, Resp(200, JsonBody({})))
    \/ QueryReturn(1)

SpecOverlap == Init /\ [][NextOverlap]_vars

\* The optional features of the config entry (all off by default) and the
\* enrichment of the containers of one endpoint.
Features(health, restart, update) ==
    [feature_switch_health_check |-> health,
     feature_switch_restart_policy |-> restart,
     feature_switch_update_check |-> update]

custom_features_enabled(features) ==
    \/ features.feature_switch_health_check
    \/ features.feature_switch_restart_policy
    \/ features.feature_switch_update_check

InspectService(eid, cid) ==
    "endpoints/" \o ToString(eid) \o "/docker/containers/" \o cid \o "/json"

\* parse_api of an inspect document: State/Health/Status and
\* HostConfig/RestartPolicy/Name, "unknown" where the document has none or
\* the query handed back None.
inspect_raw(source) ==
    LET doc == IF source.kind = "data" THEN source.val ELSE EmptyDict
    IN  [Health_Status  |-> Get(doc, "Health_Status", "unknown"),
         Restart_Policy |-> Get(doc, "Restart_Policy", "unknown")]

\* The custom attributes of one container after its pass; `held` is the map
\* with _Custom_Raw stored. First a slip that copies the inspect attributes
\* whatever the switches say.
custom_attributes_ungated(features, held, update_available) ==
    LET a == Put(held._Custom, "Health_Status", held._Custom_Raw.Health_Status)
        b == Put(a, "Restart_Policy", held._Custom_Raw.Restart_Policy)
    IN  IF features.feature_switch_update_check
        THEN Put(Put(b, "Update_Available", update_available.status),
                 "Update_Description", update_available.status_description)
        ELSE b

custom_attributes(features, held, update_available) ==
    LET a == IF features.feature_switch_health_check
             THEN Put(held._Custom, "Health_Status", held._Custom_Raw.Health_Status)
             ELSE held._Custom
        b == IF features.feature_switch_restart_policy
             THEN Put(a, "Restart_Policy", held._Custom_Raw.Restart_Policy)
             ELSE a
    IN  IF features.feature_switch_update_check
        THEN Put(Put(b, "Update_Available", update_available.status),
                 "Update_Description", update_available.status_description)
        ELSE b

\* _handle_custom_features_for_endpoint: for every container of the endpoint
\* the inspect query, the gated copies, the update check and the deletion of
\* _Custom_Raw. inspect[cid] is what query() hands back, update[cid] what
\* check_image_updates returns.
handle_custom_features_for_endpoint(containers, features, eid, inspect, update, registry_checked) ==
    [containers |->
        [cid \in DOMAIN containers |->
            LET held == Put(containers[cid], "_Custom_Raw", inspect_raw(inspect[cid]))
            IN  Without(Put(held, "_Custom",
                            custom_attributes(features, held, update[cid])),
                        {"_Custom_Raw"})],
     queries |-> {InspectService(eid, cid) : cid \in DOMAIN containers},
     registry_checked |->
        \/ registry_checked
        \/ /\ features.feature_switch_update_check
           /\ \E cid \in DOMAIN containers : update[cid].registry_used]

\* One pass of get_containers' loop after the containers were parsed and
\* tagged: the enrichment runs when a feature is on.
enrich_endpoint(containers, features, eid, inspect, update) ==
    IF custom_features_enabled(features)
    THEN handle_custom_features_for_endpoint(containers, features, eid, inspect,
                                             update, FALSE)
    ELSE [containers |-> containers, queries |-> {}, registry_checked |-> FALSE]

\* Every combination of the three switches; endpoint 1 with the container
\* "web" alone or with "db"; inspect documents with a health check and a
\* restart policy, with a restart policy only, or none (the query failed);
\* update checks that found nothing, found an update, or were refused.
FeatureChoices == {Features(h, r, u) : h \in BOOLEAN, r \in BOOLEAN, u \in BOOLEAN}

FeatureContainers ==
    { [cid \in DOMAIN ParsedRows |->
          container_record(1, "local", parsed_container(1, ParsedRows[cid]))] :
        ParsedRows \in
          { parse_api_by_id(RetData(rows)) :
              rows \in { {CT("id1", <<"/web">>, "running", "myapp", "web")},
                         {CT("id1", <<"/web">>, "running", "myapp", "web"),
                          CT("id3", <<"/db">>, "exited", "", "")} } } }

\* What query() hands back for an inspect document; None carries no document.
InspectNone == [kind |-> "none", val |-> EmptyDict]

InspectAnswers ==
    { RetData([Health_Status |-> "healthy", Restart_Policy |-> "always"]),
      RetData([Restart_Policy |-> "no"]),
      InspectNone }

UpdateAnswers ==
    { [status |-> 0, status_description |-> "No update available.", registry_used |-> FALSE],
      [status |-> 1, status_description |-> "Update available!", registry_used |-> TRUE],
      [status |-> 401, status_description |-> "Unauthorized", registry_used |-> TRUE] }

FeatureInputs ==
    {[fn |-> "enrich_endpoint", features |-> f, containers |-> cs,
      inspect |-> [cid \in DOMAIN cs |-> i], update |-> [cid \in DOMAIN cs |-> u]] :
        f \in FeatureChoices, cs \in FeatureContainers,
        i \in InspectAnswers, u \in UpdateAnswers}

InitFeatures ==
    /\ ApiInit
    /\ TickInit
    /\ RestInit
    /\ arg \in FeatureInputs
    /\ result = NoCall

\* The loop pass of get_containers over endpoint 1 enriches its containers.
FeaturesCall ==
    /\ arg.fn = "enrich_endpoint"
    /\ result = NoCall
    /\ result' = [fn |-> arg.fn,
                  out |-> enrich_endpoint(arg.containers, arg.features, 1,
                                          arg.inspect, arg.update)]
    /\ UNCHANGED <<arg, tickVars, transportVars, apiVars, entVars, subVars>>

SpecFeatures == InitFeatures /\ [][FeaturesCall]_vars

\* Inventory ticks over one endpoint whose container "web" is running,
\* stopped, renamed to "web2" under a new id, or gone; stats sensors are set
\* up for the containers of the inventory as it stands, and the registered
\* coordinators refresh (a container that is gone answers 404).
KeepContainerRows ==
    { {CT("id1", <<"/web">>, "running", "", "")},
      {CT("id1", <<"/web">>, "exited", "", "")},
      {CT("id2", <<"/web2">>, "running", "", "")},
      {} }

NextKeep ==
    \/ TickStart("scheduled")
    \/ TickAcquire("scheduled")
    \/ TickEndpoints("scheduled",
                     Resp(200, JsonBody({EP(1, "local", 1, <<Snap("24.0")>>)})))
    \/ TickContainersEnter("scheduled")
    \/ \E rows \in KeepContainerRows :
            TickContainersFetch("scheduled", Resp(200, JsonBody(rows)))
    \/ TickContainersIndex("scheduled")
    \/ TickStacks("scheduled", Resp(200, JsonBody({})))
    \/ TickSystem("scheduled")
    \/ TickReturn("scheduled")
    \/ \E k \in DOMAIN by_name_read : StatsFactoryCall(CONFIG_ENTRY_ID, by_name_read[k])
    \/ GetOrCreate
    \/ \E key \in DOMAIN stats_ns : RefreshStart(key)
    \/ \E key \in DOMAIN stats_ns : RefreshAcquire(key)
    \/ \E key \in DOMAIN stats_ns : RefreshEnd(key, Resp(404, Malformed), BusyPayload)

SpecKeep == Init /\ [][NextKeep]_vars

\* Update signals reaching sensor.py and button.py: what create_sensors
\* makes of the coordinator's data (a container sensor, its stats sensor, an
\* entity without unique id, one with a blank name, one entity twice), the
\* stacks (none, "app", or "app" and "App" under two ids), an entity registry
\* that may know stack 7 under its legacy id, and an inventory whose
\* container "web" is recreated as "web2".
SensorWeb      == SensorEntity(unique_id("sensor", 1, "web"), "web", "base")
SensorWebStats == SensorEntity("portainer_container_stats_1_web_cpu_percent", "web CPU", "stats")
SensorNoUid    == SensorEntity("", "db", "base")
SensorBlank    == SensorEntity(unique_id("sensor", 1, "db"), " ", "base")

SensorCandidates ==
    {<< >>, <<SensorWeb>>, <<SensorWeb, SensorWeb>>, <<SensorWeb, SensorWebStats>>,
     <<SensorNoUid, SensorBlank>>}

StackApp   == [Id |-> "7", Name |-> <<"a", "p", "p">>, EndpointId |-> 1]
StackAppUp == [Id |-> "8", Name |-> <<"A", "p", "p">>, EndpointId |-> 1]
StackCandidates == {<< >>, <<StackApp>>, <<StackApp, StackAppUp>>}

RegistryChoices == {{}, {stack_legacy_uid(StackApp)}}

SetupContainerRows ==
    { {CT("id1", <<"/web">>, "running", "app", "web")},
      {CT("id2", <<"/web2">>, "running", "app", "web")} }

\* The handlers are alike: a signal starts "first" unless it is under way.
FreeHandler == IF upc["first"] = "idle" THEN "first" ELSE "second"

InitSetup ==
    /\ ApiInit
    /\ TickInit
    /\ entity = NoEntity
    /\ SubInit
    /\ platform_uids = {}
    /\ registry_uids \in RegistryChoices
    /\ created_uids = {}
    /\ alias_uids = {}
    /\ upc = [h \in UpdateHandlers |-> "idle"]
    /\ upending = [h \in UpdateHandlers |-> NoPending]
    /\ added = << >>
    /\ controls = EmptyDict
    /\ button_created = {}
    /\ arg = NoCall
    /\ result = NoCall

\* A tick that ran to its end sends the entry's update signal just before
\* it returns (coordinator.py 155): the signal starts one handler of the
\* sensor platform, and the handlers under way resume only once the tick's
\* coroutine has returned. An earlier handler's executor job (lambda: None)
\* has returned by the time the next tick signals.
Signalled ==
    /\ tpc["scheduled"] = "returned"
    /\ tret["scheduled"] = "ok"
    /\ \A h \in UpdateHandlers : upc[h] # "executor"

Resumable == tpc["scheduled"] # "returned"

NextSetup ==
    \/ TickStart("scheduled")
    \/ TickAcquire("scheduled")
    \/ TickEndpoints("scheduled",
                     Resp(200, JsonBody({EP(1, "local", 1, <<Snap("24.0")>>)})))
    \/ TickContainersEnter("scheduled")
    \/ \E rows \in SetupContainerRows :
            TickContainersFetch("scheduled", Resp(200, JsonBody(rows)))
    \/ TickContainersIndex("scheduled")
    \/ TickStacks("scheduled", Resp(200, JsonBody({})))
    \/ TickSystem("scheduled")
    \/ TickReturn("scheduled")
    \/ /\ Signalled
       /\ \E entities \in SensorCandidates, stacks \in StackCandidates :
              UpdateStart(FreeHandler, entities, stacks)
    \/ \E h \in UpdateHandlers : Resumable /\ UpdateAdd(h)
    \/ \E h \in UpdateHandlers : Resumable /\ UpdateStacks(h)
    \/ ButtonUpdate

SpecSetup == InitSetup /\ [][NextSetup]_vars

\* Buttons and switches beside an inventory that changes from tick to tick:
\* "web" of stack "app", recreated as "web2" (new id, same compose labels);
\* two replicas of one service, of which one goes away.
ControlsContainerRows ==
    { {CT("id1", <<"/web">>, "running", "app", "web")},
      {CT("id2", <<"/web2">>, "running", "app", "web")},
      {CT("id3", <<"/app_db_1">>, "running", "app", "db"),
       CT("id4", <<"/app_db_2">>, "running", "app", "db")},
      {CT("id4", <<"/app_db_2">>, "running", "app", "db")} }

NextControls ==
    \/ TickStart("scheduled")
    \/ TickAcquire("scheduled")
    \/ TickEndpoints("scheduled",
                     Resp(200, JsonBody({EP(1, "local", 1, <<Snap("24.0")>>)})))
    \/ TickContainersEnter("scheduled")
    \/ \E rows \in ControlsContainerRows :
            TickContainersFetch("scheduled", Resp(200, JsonBody(rows)))
    \/ TickContainersIndex("scheduled")
    \/ TickStacks("scheduled", Resp(200, JsonBody({})))
    \/ TickSystem("scheduled")
    \/ TickReturn("scheduled")
    \/ ButtonUpdate
    \/ SwitchSetup
    \/ \E u \in DOMAIN controls : ControlResolve(u)

SpecControls == Init /\ [][NextControls]_vars

\* _index_containers_by_name applied to the values of a flat map: up to
\* MaxContainers containers on two endpoints, named "web" or "db", unnamed, or
\* without an endpoint id. A Docker endpoint has no two containers of one
\* name, so no two records share endpoint and name.
IndexChoices ==
    {[eid |-> e, name |-> n] : e \in {1, 2}, n \in {"web", "db", ""}}
        \cup {[eid |-> 0, name |-> "web"]}

FlatValue(i, c) ==
    IF c.eid = 0
    THEN [Id |-> "c" \o ToString(i), Name |-> c.name, State |-> "exited"]
    ELSE [Id |-> "c" \o ToString(i), Name |-> c.name, State |-> "running",
          EndpointId |-> c.eid]

IndexInputs ==
    UNION {{[i \in 1..n |-> FlatValue(i, s[i])] :
                s \in {q \in [1..n -> IndexChoices] :
                          \A i, j \in 1..n :
                             (i # j /\ q[i].name # "" /\ q[i].eid # 0) => q[i] # q[j]}} :
           n \in 0..MaxContainers}

InitIndex ==
    /\ ApiInit
    /\ TickInit
    /\ RestInit
    /\ arg \in {[fn |-> "_index_containers_by_name", values |-> v] : v \in IndexInputs}
    /\ result = NoCall

IndexCall ==
    /\ arg.fn = "_index_containers_by_name"
    /\ result = NoCall
    /\ result' = [fn |-> arg.fn, val |-> index_containers_by_name(arg.values)]
    /\ UNCHANGED <<arg, tickVars, transportVars, apiVars, entVars, subVars>>

SpecIndex == InitIndex /\ [][IndexCall]_vars

----------------------------------------------------------------------------
(* Properties of the transport's connectivity bookkeeping (SpecQuery) *)

\* Caller t's request ends in this step.
QueryEnds(t) == qpc[t] = "request" /\ qpc'[t] = "returned"

\* The outcome is a failure of the query: an exception, a status other than
\* 200, or a body that does not parse.
Failed(out) == out.kind = "exc" \/ out.status # 200 \/ ~out.body.ok

\* C1: hysteresis on the liveness service. From connected with the endpoints
\* counter at 0, one failed query("endpoints") leaves connected true (counter
\* 1); a failed query("endpoints") arriving with the counter already at 1 or
\* more (a second consecutive failure) makes connected false; a successful
\* query("endpoints") makes connected true and puts the counter back to 0.
C1_Hysteresis ==
    [][\A t \in QueryCallers :
         (QueryEnds(t) /\ qarg[t].service = "endpoints") =>
            /\ (Failed(qout'[t]) /\ connected /\ fail_counts["endpoints"] = 0)
                  => (connected' /\ fail_counts'["endpoints"] = 1)
            /\ (Failed(qout'[t]) /\ fail_counts["endpoints"] >= 1)
                  => ~connected'
            /\ ~Failed(qout'[t])
                  => (connected' /\ fail_counts'["endpoints"] = 0)]_vars

\* C1 witness: a second consecutive failed query("endpoints") has just
\* returned and connectivity is down.
C1_Witness ==
    /\ qpc[1] = "returned" /\ qarg[1].service = "endpoints" /\ Failed(qout[1])
    /\ fail_counts["endpoints"] = 2
    /\ ~connected

\* C3: connected goes from true to false only in a step in which a query to
\* a service other than reporting/get_data fails and that service's own
\* counter, incremented by this failure, is at least 2.
C3_FlipOnlyOnSustainedFailure ==
    [][(connected /\ ~connected') =>
         \E t \in QueryCallers :
            /\ QueryEnds(t)
            /\ Failed(qout'[t])
            /\ qarg[t].service # "reporting/get_data"
            /\ fail_counts'[qarg[t].service] = fail_counts[qarg[t].service] + 1
            /\ fail_counts'[qarg[t].service] >= 2]_vars

\* C3 witness: single failures on two different services (each counter at 1),
\* the latest just returned, and connected is still true.
C3_Witness ==
    /\ connected
    /\ fail_counts["endpoints"] = 1 /\ fail_counts["stacks"] = 1
    /\ qpc[1] = "returned" /\ Failed(qout[1])

\* C4: a failed query to reporting/get_data never changes connected, however
\* many have failed before it.
C4_UpdateCheckExempt ==
    [][\A t \in QueryCallers :
         (QueryEnds(t) /\ qarg[t].service = "reporting/get_data" /\ Failed(qout'[t]))
            => connected' = connected]_vars

\* C4 witness: reporting/get_data has failed as often as the model allows
\* in a row, and connected is still true.
C4_Witness ==
    /\ connected
    /\ fail_counts["reporting/get_data"] = MaxFails
    /\ qpc[1] = "returned" /\ qarg[1].service = "reporting/get_data" /\ Failed(qout[1])

\* C5 as stated: every 2xx response with a parseable JSON body makes query
\* return the decoded payload, reset the service's counter and set connected.
C5_Any2xxIsSuccess ==
    [][\A t \in QueryCallers :
         (/\ QueryEnds(t)
          /\ qout'[t].kind = "resp"
          /\ qout'[t].status >= 200 /\ qout'[t].status < 300
          /\ qout'[t].body.ok)
            => /\ qret'[t] = RetData(qout'[t].body.val)
               /\ fail_counts'[qarg[t].service] = 0
               /\ connected']_vars

\* C5 amended: every response with status 200 and a parseable JSON body makes
\* query return the decoded payload, reset that service's counter to 0, clear
\* the error code and set connected.
C5_Status200IsSuccess ==
    [][\A t \in QueryCallers :
         (/\ QueryEnds(t)
          /\ qout'[t].kind = "resp"
          /\ qout'[t].status = 200
          /\ qout'[t].body.ok)
            => /\ qret'[t] = RetData(qout'[t].body.val)
               /\ fail_counts'[qarg[t].service] = 0
               /\ \A s \in Services \ {qarg[t].service} : fail_counts'[s] = fail_counts[s]
               /\ error' = ""
               /\ connected']_vars

\* C5 witness: a 200 response with a JSON body has just been returned for a
\* service while another service still has failures counted.
C5_Witness ==
    /\ qpc[1] = "returned"
    /\ qout[1].kind = "resp" /\ qout[1].status = 200 /\ qout[1].body.ok
    /\ qret[1] = RetData("p2")
    /\ \E s \in Services : s # qarg[1].service /\ fail_counts[s] > 0

\* The error code the source assigns to each failure kind.
C6_Code(out) ==
    IF out.kind = "exc"
    THEN CASE out.exc \in {"ConnectTimeout", "ReadTimeout"} -> "timeout"
           [] out.exc = "SSLError"                          -> "ssl_error"
           [] out.exc = "ConnectionError"                   -> "connection_error"
           [] out.exc = "TooManyRedirects"                  -> "request_exception"
           [] OTHER                                         -> "unknown_exception"
    ELSE IF out.status = 200 THEN "invalid_json"
    ELSE ToString(out.status)

\* C6: for every failure kind, query does not raise: it returns None,
\* increments that service's counter by exactly one, leaves every other
\* counter alone and records the failure's error code.
C6_FailuresAreAbsorbed ==
    [][\A t \in QueryCallers :
         (QueryEnds(t) /\ Failed(qout'[t]))
            => /\ qret'[t] = RetNone
               /\ fail_counts'[qarg[t].service] = fail_counts[qarg[t].service] + 1
               /\ \A s \in Services \ {qarg[t].service} : fail_counts'[s] = fail_counts[s]
               /\ error' = C6_Code(qout'[t])]_vars

\* C6 witness: an exception that is no requests exception has been absorbed.
C6_Witness ==
    /\ qpc[1] = "returned"
    /\ qout[1] = Exc("ValueError")
    /\ qret[1] = RetNone
    /\ error = "unknown_exception"

----------------------------------------------------------------------------
(* Properties of the query mutex (SpecMutex) *)

\* C7: at most one query request is in flight, the mutex is held exactly by
\* the caller inside the with-block, and it is free again on every exit path.
C7_QuerySerialized ==
    /\ Cardinality({t \in QueryCallers : qpc[t] = "request"}) <= 1
    /\ \A t \in QueryCallers : (qpc[t] \in {"locked", "request"}) <=> (lock = t)
    /\ (\A t \in QueryCallers : qpc[t] \notin {"locked", "request"}) => lock = NoThread

\* C7 witness: one caller's request is in flight while another caller waits
\* for the mutex.
C7_Witness ==
    \E t, u \in QueryCallers : t # u /\ qpc[t] = "request" /\ qpc[u] = "waiting"

----------------------------------------------------------------------------
(* Properties of the stats path (SpecStats) *)

\* Some stats call moves in this step.
StatsStep == swaiting' # swaiting \/ sinflight' # sinflight \/ slast' # slast

\* C2: no step of get_container_stats, whatever its outcome, changes the
\* connected flag, the error code or any failure counter.
C2_StatsLeavesTransportAlone ==
    [][StatsStep => UNCHANGED <<connected, error, fail_counts>>]_vars

\* C2 witness: a stats call got a 404 while the transport was connected with
\* one failure counted, and those values are still there.
C2_Witness ==
    /\ slast.out.kind = "resp" /\ slast.out.status = 404 /\ slast.ret = RetNone
    /\ connected /\ fail_counts["endpoints"] = 1 /\ error = "500"

\* C8: the stats requests in flight never exceed STATS_MAX_CONCURRENCY; each
\* holds exactly one permit, so permits left plus requests in flight is the
\* full count (and the semaphore is full when none is in flight).
C8_StatsBounded ==
    /\ sinflight <= STATS_MAX_CONCURRENCY
    /\ stats_sem >= 0
    /\ stats_sem + sinflight = STATS_MAX_CONCURRENCY

\* C8 witness: the cap is reached and further callers are blocked.
C8_Witness ==
    /\ sinflight = STATS_MAX_CONCURRENCY
    /\ stats_sem = 0
    /\ swaiting > 0

----------------------------------------------------------------------------
(* Properties of the control client (SpecControl) *)

\* C9: a control action returns True exactly when the POST completed with a
\* status in [200, 300); any other status and any exception give False, and
\* nothing is raised.
C9_ControlVerdict ==
    \A c \in ControlCallers :
        cpc[c] = "returned" =>
            /\ cret[c].kind = "bool"
            /\ (cret[c] = RetBool(TRUE))
                  <=> (cout[c].kind = "resp" /\ cout[c].status \in 200..299)

\* C9 witness: a stack start answered 204 No Content was reported as success.
C9_Witness ==
    /\ cpc[1] = "returned"
    /\ creq[1].action = "start_stack"
    /\ cout[1].status = 204
    /\ cret[1] = RetBool(TRUE)

\* C10: a control action can start and can complete whatever the state of
\* the query mutex, and no step of it changes the connected flag, the error
\* code, the failure counters or the mutex.
C10_ControlIndependent ==
    /\ [](\A c \in ControlCallers :
            /\ cpc[c] = "idle" =>
                  \A a \in ControlActions : ENABLED ControlCall(c, a, 1, "7")
            /\ cpc[c] = "posting" =>
                  \A out \in ControlOutcomes : ENABLED ControlRespond(c, out))
    /\ [][controlVars' # controlVars
            => UNCHANGED <<connected, error, fail_counts, lock>>]_vars

\* C10 witness: a control action has completed while a query request is in
\* flight holding the mutex.
C10_Witness ==
    /\ cpc[1] = "returned"
    /\ lock = 1 /\ qpc[1] = "request"

----------------------------------------------------------------------------
(* Properties of the inventory tick (SpecTick, SpecTickLock) *)

\* The inventory readers look at: the four maps of raw_data.
Inventory(rd) ==
    [k \in {"endpoints", "containers", "containers_by_name", "stacks"} \cap DOMAIN rd |->
        rd[k]]

\* Tick t has ended by raising.
Raised(t) == tpc[t] = "returned" /\ tret[t] \in {"UpdateFailed", "RuntimeError"}

\* Tick t is between acquiring the lock and its own release of it.
InPipeline(t) ==
    tpc[t] \in {"get_endpoints", "get_containers", "containers_loop", "get_stacks",
                "get_system_data"}

\* C11: when a fetch stage of a tick fails, the tick ends with UpdateFailed
\* and the inventory readers see in raw_data (endpoints, containers,
\* containers_by_name, stacks) is the one the last fully successful tick
\* produced.
C11_FailedTickKeepsSnapshot ==
    \A t \in Ticks :
        Raised(t) => /\ tret[t] = "UpdateFailed"
                     /\ Inventory(raw_data) = Inventory(last_good)

\* C12: the snapshot is published atomically: at every instant, also while
\* the fetch stages of a tick run, raw_data is the complete result of a fully
\* successful tick (or what __init__ set up, before the first one), never the
\* empty or partly filled structure of the tick in progress.
C12_PublishedAtomically ==
    raw_data = last_good \/ raw_data = InitialRawData

\* C13: a tick that cannot get the lock within its wait is skipped: none of
\* its stages runs, it does not raise, and the data consumers see after it
\* is the data they saw before it.
C13_SkippedTickChangesNothing ==
    [][\A t \in Ticks :
         (tpc[t] = "acquiring" /\ tpc'[t] = "returned") =>
            /\ tstages'[t] = << >>
            /\ tret'[t] = "skipped"
            /\ data' = data
            /\ raw_data' = raw_data]_vars

\* C14: there is never a state in which two invocations of
\* _async_update_data are both between lock acquisition and lock release.
C14_OnePipelineAtATime ==
    \A t1, t2 \in Ticks : (InPipeline(t1) /\ InPipeline(t2)) => t1 = t2

\* C15: within one tick the stages run in the order endpoints, containers,
\* stacks, system fields, each starting only after the one before it has
\* completed (the stacks stage only once the containers loop is over), and
\* once a stage has raised no later stage of that tick runs.
C15_StagesSequential ==
    /\ [](\A t \in Ticks :
            tstages[t] = SubSeq(<<"endpoints", "containers", "stacks", "system">>,
                                1, Len(tstages[t])))
    /\ [][\A t \in Ticks :
            /\ tstages'[t] # tstages[t] /\ tstages'[t] # << >>
                  => /\ tstages'[t] = Append(tstages[t], tstages'[t][Len(tstages'[t])])
                     /\ tloop[t] = {}
            /\ Raised(t) => tstages'[t] \in {tstages[t], << >>}]_vars

\* The containers stage has raised after the endpoints stage; neither the
\* stacks nor the system stage ran.
C15_Witness ==
    /\ Raised("scheduled")
    /\ tstages["scheduled"] = <<"endpoints", "containers">>
    /\ "stacks" \notin DOMAIN raw_data

----------------------------------------------------------------------------
(* Properties of the indices and of the stack fallback *)

\* The record has an endpoint id and a non-empty name.
Named(c) == "EndpointId" \in DOMAIN c /\ "Name" \in DOMAIN c /\ c.Name # ""

\* C16: containers_by_name is consistent and unique: every key equals
\* "<EndpointId>:<Name>" of the record it maps to, every container of the
\* flat map that has an endpoint id and a non-empty name is found under its
\* key, and containers of one name on different endpoints are under
\* different keys.
C16_IndexConsistent ==
    result # NoCall =>
        LET index  == result.val
            values == arg.values
            key(c) == ToString(c.EndpointId) \o ":" \o c.Name
        IN  /\ \A k \in DOMAIN index : Named(index[k]) /\ k = key(index[k])
            /\ \A i \in DOMAIN values :
                  Named(values[i]) =>
                     (key(values[i]) \in DOMAIN index /\ index[key(values[i])] = values[i])
            /\ \A i, j \in DOMAIN values :
                  (/\ Named(values[i]) /\ Named(values[j])
                   /\ values[i].Name = values[j].Name
                   /\ values[i].EndpointId # values[j].EndpointId)
                     => \E k1, k2 \in DOMAIN index :
                           k1 # k2 /\ index[k1] = values[i] /\ index[k2] = values[j]

\* The index was built from a flat map holding "web" on endpoint 1 and on
\* endpoint 2, and an unnamed container.
C16_Witness ==
    /\ result # NoCall
    /\ \E i, j, k \in DOMAIN arg.values :
          /\ Named(arg.values[i]) /\ Named(arg.values[j])
          /\ arg.values[i].Name = "web" /\ arg.values[j].Name = "web"
          /\ arg.values[i].EndpointId = 1 /\ arg.values[j].EndpointId = 2
          /\ ~Named(arg.values[k])
    /\ Cardinality(DOMAIN result.val) = 2

----------------------------------------------------------------------------
(* Properties of the container entities (SpecEntity) *)

\* The container a record stands for, across its recreations.
SameContainer(c1, c2) ==
    \E pair \in {{"id1", "id3"}, {"id2", "id4"}, {"id5", "id6"}} :
        c1.Id \in pair /\ c2.Id \in pair

\* C17: identity is stable under rename: however the container an entity
\* was created for is renamed and recreated over the ticks (same endpoint,
\* compose stack and service; new name, new id), the entity's unique id stays
\* the one derived from the endpoint and the original name, and the record
\* the entity resolves to is that container under its new name and id.
C17_IdentityStableUnderRename ==
    entity # NoEntity =>
        /\ entity.unique_id =
              unique_id(entity.kind, entity.created_for.EndpointId, entity.created_for.Name)
        /\ entity.current # EmptyDict
        /\ SameContainer(entity.current, entity.created_for)

----------------------------------------------------------------------------
(* Properties of the stack fallback (SpecStacks) *)

\* The stacks query returned nothing, or only stacks of endpoints that are
\* not online.
NothingUsable(a) ==
    \/ ~a.source.ok
    \/ \A s \in a.source.rows :
          \/ s.EndpointId \notin DOMAIN a.rd.endpoints
          \/ a.rd.endpoints[s.EndpointId].Status # 1

\* The (endpoint, compose project) pairs found on the containers.
ProjectPairs(rd) ==
    {<<rd.containers[k].EndpointId, rd.containers[k].Compose_Stack>> :
        k \in {x \in DOMAIN rd.containers : rd.containers[x].Compose_Stack # ""}}

\* C18: when the stacks query returns nothing, or only stacks of endpoints
\* that are not online, the stacks of the snapshot are synthesized from the
\* containers: exactly one record for every (endpoint, non-empty compose
\* project) pair, with id "synth-<endpoint>:<project>", and computing them
\* once more from the same snapshot gives the same records.
C18_StackFallback ==
    (result # NoCall /\ NothingUsable(arg)) =>
        LET stacks == result.rd.stacks
            pairs  == ProjectPairs(arg.rd)
        IN  /\ Cardinality(DOMAIN stacks) = Cardinality(pairs)
            /\ \A p \in pairs :
                  \E k \in DOMAIN stacks :
                     /\ stacks[k].EndpointId = p[1]
                     /\ stacks[k].Name = p[2]
                     /\ stacks[k].Id = "synth-" \o ToString(p[1]) \o ":" \o p[2]
            /\ result.again # None => result.again = stacks

\* The stacks query returned only a stack of the offline endpoint; two
\* containers of project "myapp" and one of "edge" on endpoint 1 and one of
\* "myapp" on endpoint 3 gave three synthesized stacks, computed twice.
C18_Witness ==
    /\ result # NoCall
    /\ arg.source.ok /\ arg.source.rows = {ST(7, "legacy", 2)}
    /\ Cardinality(DOMAIN arg.rd.containers) = 4
    /\ ProjectPairs(arg.rd) = {<<1, "myapp">>, <<1, "edge">>, <<3, "myapp">>}
    /\ Cardinality(DOMAIN result.rd.stacks) = 3
    /\ result.again # None

----------------------------------------------------------------------------
(* Properties of the stats arithmetic (SpecCpu) *)

\* A counter of the payload; a missing counter counts as 0.
Counter(st, path) == IF path \in DOMAIN st THEN st[path] ELSE 0

UsageDelta(st) ==
    Counter(st, "cpu_stats/cpu_usage/total_usage")
        - Counter(st, "precpu_stats/cpu_usage/total_usage")
SystemDelta(st) ==
    Counter(st, "cpu_stats/system_cpu_usage") - Counter(st, "precpu_stats/system_cpu_usage")

\* The reported online_cpus, else the length of the per-CPU array, else 1.
CpuCount(st) ==
    IF Counter(st, "cpu_stats/online_cpus") # 0 THEN st["cpu_stats/online_cpus"]
    ELSE IF "cpu_stats/cpu_usage/percpu_usage" \in DOMAIN st
            /\ Len(st["cpu_stats/cpu_usage/percpu_usage"]) > 0
         THEN Len(st["cpu_stats/cpu_usage/percpu_usage"])
         ELSE 1

\* C20: compute_cpu_percent returns (usage delta / system delta) * CPU count
\* * 100, the CPU count being the reported online_cpus, else the length of
\* the per-CPU array, else 1; it returns 0 whenever a delta is <= 0 (missing
\* counters and counter resets included); for deltas 100,000,000 and
\* 500,000,000 and 4 online CPUs it returns 80.
C20_CpuPercent ==
    result # NoCall =>
        LET st  == arg.stats
            cd  == UsageDelta(st)
            sd  == SystemDelta(st)
            g   == GCD(cd, sd)
            pct == result.val
        IN  /\ pct.den > 0
            /\ (cd <= 0 \/ sd <= 0) => pct = [num |-> 0, den |-> 1]
            /\ (cd > 0 /\ sd > 0) =>
                  pct.num * (sd \div g) = (cd \div g) * CpuCount(st) * 100 * pct.den
            /\ (cd = 100000000 /\ sd = 500000000 /\ CpuCount(st) = 4) =>
                  pct = [num |-> 80, den |-> 1]

\* The fixture's deltas with 4 reported CPUs gave 80.
C20_Witness ==
    /\ result # NoCall
    /\ UsageDelta(arg.stats) = 100000000
    /\ SystemDelta(arg.stats) = 500000000
    /\ Counter(arg.stats, "cpu_stats/online_cpus") = 4
    /\ result.val = [num |-> 80, den |-> 1]

----------------------------------------------------------------------------
(* Properties of the stats sub-coordinator (SpecSub) *)

\* The call of the stats tick that this step made.
TickCall == sub_calls'[Len(sub_calls')]

\* C19: a stats tick that gets no data (non-200, a body that does not parse,
\* the empty object, any transport error) completes with a snapshot: the
\* last computed snapshot, unchanged, when there is one - so it stays the
\* same over any number of consecutive no-data ticks - and otherwise the
\* zero snapshot (cpu 0, memory 0, empty raw payload).
C19_NoDataKeepsSnapshot ==
    [][ (Len(sub_calls') = Len(sub_calls) + 1 /\ no_stats(TickCall.stats)) =>
            /\ sub_data' # None
            /\ sub_last' = sub_data'
            /\ sub_last_cpu' = sub_last_cpu
            /\ IF sub_last # None
               THEN sub_data' = sub_last
               ELSE /\ sub_data'.cpu_percent = [num |-> 0, den |-> 1]
                    /\ sub_data'.mem_used_bytes = 0
                    /\ sub_data'.mem_used_mib = [num |-> 0, den |-> 1]
                    /\ sub_data'.mem_percent = [num |-> 0, den |-> 1]
                    /\ DOMAIN sub_data'.raw = {} ]_vars

\* A computed snapshot (CPU above 0) is still published after two
\* consecutive ticks without data, the second a transport error.
C19_Witness ==
    /\ Len(sub_calls) >= 3
    /\ ~no_stats(sub_calls[Len(sub_calls) - 2].stats)
    /\ no_stats(sub_calls[Len(sub_calls) - 1].stats)
    /\ sub_calls[Len(sub_calls)].out.kind = "exc"
    /\ sub_data.cpu_percent.num > 0
    /\ sub_data.raw = sub_calls[Len(sub_calls) - 2].stats

----------------------------------------------------------------------------
(* Properties of the CPU smoothing (SpecSmooth) *)

\* The cpu_percent that the claim's rule gives for the last data-bearing
\* tick of a history of calls (None when no call carried data): the raw
\* value for the first sample or when alpha = 0, else
\* alpha * new + (1 - alpha) * the value of the previous data-bearing tick.
RECURSIVE PublishedCpu(_, _)
PublishedCpu(calls, alpha) ==
    IF calls = << >> THEN None
    ELSE LET call == calls[Len(calls)]
             prev == PublishedCpu(SubSeq(calls, 1, Len(calls) - 1), alpha)
         IN  IF no_stats(call.stats) THEN prev
             ELSE LET new == compute_cpu_percent(call.stats)
                  IN  IF alpha.num = 0 \/ prev = None THEN new
                      ELSE Frac(alpha.num * new.num * prev.den
                                    + (alpha.den - alpha.num) * prev.num * new.den,
                                alpha.den * new.den * prev.den)

\* C21: after every data-bearing tick the published cpu_percent is
\* alpha * new + (1 - alpha) * smoothed_prev when alpha > 0, smoothed_prev
\* being what the previous data-bearing tick published (the first sample is
\* published raw), and the raw value of the tick when alpha = 0.
C21_CpuSmoothing ==
    (sub_calls # << >> /\ ~no_stats(sub_calls[Len(sub_calls)].stats)) =>
        sub_data.cpu_percent = PublishedCpu(sub_calls, sub_alpha)

\* Two data-bearing ticks with different raw values, a tick without data
\* between them, smoothing on: the value published is not the raw one.
C21_Witness ==
    /\ Len(sub_calls) >= 3
    /\ sub_alpha = [num |-> 1, den |-> 5]
    /\ ~no_stats(sub_calls[Len(sub_calls)].stats)
    /\ no_stats(sub_calls[Len(sub_calls) - 1].stats)
    /\ ~no_stats(sub_calls[Len(sub_calls) - 2].stats)
    /\ sub_data.cpu_percent # compute_cpu_percent(sub_calls[Len(sub_calls)].stats)
    /\ sub_data.cpu_percent = PublishedCpu(sub_calls, sub_alpha)

----------------------------------------------------------------------------
(* Properties of the memory arithmetic (SpecMem) *)

\* C22: with cache exclusion, used = max(usage - cache, 0), cache being
\* inactive_file when cache is absent or zero; without it, used = usage;
\* percent = used / limit * 100, and 0 whenever limit <= 0. For usage
\* 500,000,000, cache 100,000,000 and limit 2,000,000,000: used 400,000,000
\* and percent 20 with exclusion, used 500,000,000 without.
C22_MemoryMetrics ==
    result # NoCall =>
        LET st    == arg.stats
            usage == Counter(st, "memory_stats/usage")
            cache == IF Counter(st, "memory_stats/stats/cache") # 0
                     THEN st["memory_stats/stats/cache"]
                     ELSE Counter(st, "memory_stats/stats/inactive_file")
            limit == Counter(st, "memory_stats/limit")
            g     == GCD(result.used, limit)
            h     == GCD(100, limit \div g)
            fixture == /\ usage = 500000000
                       /\ Counter(st, "memory_stats/stats/cache") = 100000000
                       /\ limit = 2000000000
        IN  /\ arg.exclude_cache =>
                  result.used = IF usage - cache > 0 THEN usage - cache ELSE 0
            /\ ~arg.exclude_cache => result.used = usage
            /\ result.pct.den > 0
            /\ limit <= 0 => result.pct = [num |-> 0, den |-> 1]
            /\ limit > 0 =>
                  \* used / limit * 100, in lowest terms
                  /\ result.pct.num = (result.used \div g) * (100 \div h)
                  /\ result.pct.den = (limit \div g) \div h
            /\ (fixture /\ arg.exclude_cache) =>
                  result.used = 400000000 /\ result.pct = [num |-> 20, den |-> 1]
            /\ (fixture /\ ~arg.exclude_cache) => result.used = 500000000

\* The fixture with exclusion gave 400,000,000 and 20.
C22_Witness ==
    /\ result # NoCall
    /\ arg.exclude_cache
    /\ Counter(arg.stats, "memory_stats/usage") = 500000000
    /\ Counter(arg.stats, "memory_stats/stats/cache") = 100000000
    /\ Counter(arg.stats, "memory_stats/limit") = 2000000000
    /\ result.used = 400000000
    /\ result.pct = [num |-> 20, den |-> 1]

----------------------------------------------------------------------------
(* Properties of the registry of stats coordinators (SpecRegistry) *)

\* This step is get_or_create_container_stats_coordinator returning.
GetOrCreateReturns == arg.fn = "get_or_create" /\ result = NoCall /\ result' # NoCall

\* C23: the registry holds at most one coordinator per (config entry,
\* container key): as many objects were constructed as there are keys, and
\* no object sits under two keys. A get_or_create call for a key already
\* present returns the object registered there, unchanged (smoothing state
\* and last snapshot included) but for its container id, which becomes the
\* id passed in, and constructs nothing; it touches no other key. The next
\* stats request of a coordinator is sent for the container id it holds.
C23_RegistryReuses ==
    /\ [](/\ made = Cardinality(DOMAIN stats_ns)
          /\ \A k1, k2 \in DOMAIN stats_ns :
                stats_ns[k1].serial = stats_ns[k2].serial => k1 = k2)
    /\ [][ GetOrCreateReturns =>
             LET key == <<arg.entry_id, arg.container_key>>
             IN  /\ key \in DOMAIN stats_ns'
                 /\ result'.coord = stats_ns'[key].serial
                 /\ stats_ns'[key].container_id = arg.container_id
                 /\ \A k \in (DOMAIN stats_ns) \ {key} : stats_ns'[k] = stats_ns[k]
                 /\ key \in DOMAIN stats_ns =>
                       /\ made' = made
                       /\ DOMAIN stats_ns' = DOMAIN stats_ns
                       /\ stats_ns'[key] =
                             [stats_ns[key] EXCEPT !.container_id = arg.container_id] ]_vars
    /\ [][ \A key \in DOMAIN stats_ns :
               (stats_ns[key].pc = "idle" /\ stats_ns'[key].pc = "waiting") =>
                   stats_ns'[key].polled = stats_ns[key].container_id ]_vars

\* "web" was polled under id1 and holds a smoothed value and a snapshot;
\* get_or_create has just returned the same object for id2, and another
\* entry has its own coordinator for the same key.
C23_Witness ==
    LET key == <<CONFIG_ENTRY_ID, "1:web">>
    IN  /\ key \in DOMAIN stats_ns
        /\ <<"entry2", "1:web">> \in DOMAIN stats_ns
        /\ stats_ns[key].polled = "id1"
        /\ stats_ns[key].last_cpu # None
        /\ stats_ns[key].last # None
        /\ stats_ns[key].container_id = "id2"
        /\ arg.fn = "get_or_create"
        /\ arg.entry_id = CONFIG_ENTRY_ID
        /\ arg.container_key = "1:web"
        /\ arg.container_id = "id2"
        /\ result # NoCall
        /\ result.coord = stats_ns[key].serial

----------------------------------------------------------------------------
(* Properties of the entities' availability (SpecAvail) *)

\* The entity's container or stack is in the inventory as it stands: a
\* container of the entity's endpoint with its name or with its compose
\* stack and service; a stack of the entity's endpoint with its name.
Resolvable(ent) ==
    IF ent.kind = "stack_containers"
    THEN \E s \in Range(ValuesOf(stacks_read)) :
            s.EndpointId = ent.endpoint_id /\ s.Name = ent.stack_name
    ELSE \E c \in Range(ValuesOf(by_name_read)) :
            /\ c.EndpointId = ent.endpoint_id
            /\ \/ c.Name = ent.container_name
               \/ /\ ent.compose_stack # "" \/ ent.compose_service # ""
                  /\ c.Compose_Stack = ent.compose_stack
                  /\ c.Compose_Service = ent.compose_service

\* C24: a container or stack entity is available exactly when its container
\* or stack is resolvable in the current snapshot, whatever the connected
\* flag says.
C24_AvailabilityFromSnapshot ==
    entity # NoEntity => (available(entity) <=> Resolvable(entity))

\* The same for the container entities alone.
C24_ContainerAvailability ==
    (entity # NoEntity /\ entity.kind # "stack_containers") =>
        (available(entity) <=> Resolvable(entity))

----------------------------------------------------------------------------
(* Properties of the entities' control actions (SpecAct) *)

\* This step is a handler of the entity deciding what to send.
ActStep == result = NoCall /\ result' # NoCall /\ result'.fn \in ControlActions

\* The records of index `by_name` the entity stands for: those of its
\* endpoint under its name, or else those of its compose stack and service.
ResolvesTo(ent, by_name) ==
    LET same_name == {c \in Range(ValuesOf(by_name)) :
                        c.EndpointId = ent.endpoint_id /\ c.Name = ent.container_name}
    IN  IF same_name # {} THEN same_name
        ELSE IF ent.compose_stack = "" /\ ent.compose_service = "" THEN {}
        ELSE {c \in Range(ValuesOf(by_name)) :
                 /\ c.EndpointId = ent.endpoint_id
                 /\ c.Compose_Stack = ent.compose_stack
                 /\ c.Compose_Service = ent.compose_service}

\* What the rule of C25 asks of an action step, given the index that
\* counts as the latest snapshot.
SentFor(by_name) ==
    LET targets == ResolvesTo(entity, by_name)
    IN  IF targets = {}
        THEN ~result'.sent /\ creq' = creq
        ELSE /\ result'.sent
             /\ \E c \in targets :
                    creq'[EntityCaller] =
                        [action |-> result'.fn,
                         service |-> ControlService(result'.fn, entity.endpoint_id, c.Id)]

\* C25: a start, stop or restart triggered on a container entity is sent
\* for the endpoint and the container id of the record the entity resolves
\* to in the latest snapshot (the inventory the last completed tick
\* published); when it resolves to none, nothing is sent.
C25_ActsOnLatestSnapshot ==
    [][ActStep => SentFor(Get(last_good, "containers_by_name", EmptyDict))]_vars

\* The same against the index the handler reads, raw_data as it stands.
C25_ActsOnWhatItReads ==
    [][ActStep => SentFor(by_name_read)]_vars

----------------------------------------------------------------------------
(* Properties of the stack-containers sensor (SpecCounts) *)

\* The containers of the snapshot on the stack's endpoint whose compose
\* project is the stack's name, taken from the inventory by id.
Members(rd, stack) ==
    {c \in Range(ValuesOf(rd.containers)) :
        c.EndpointId = stack.EndpointId /\ c.Compose_Stack = stack.Name}

\* C26: the stack-containers sensor reports total = the number of
\* containers on the stack's endpoint whose compose project is the stack's
\* name, running = the number of those that are running or restarting,
\* stopped = total - running and the value "running/total"; so
\* 0 <= running <= total, and containers of other stacks or endpoints are
\* not counted.
C26_StackCounts ==
    result # NoCall =>
        LET members == Members(arg.rd, arg.stack)
            up      == {c \in members : c.State \in {"running", "restarting"}}
            s       == result.state
        IN  /\ s.total = Cardinality(members)
            /\ s.running = Cardinality(up)
            /\ s.stopped = s.total - s.running
            /\ s.native_value = ToString(s.running) \o "/" \o ToString(s.total)
            /\ 0 <= s.running /\ s.running <= s.total

\* "myapp" on endpoint 1 with a running, a restarting and an exited member,
\* and a "myapp" container on endpoint 3 that is not counted: 2/3.
C26_Witness ==
    /\ result # NoCall
    /\ arg.stack = [EndpointId |-> 1, Name |-> "myapp"]
    /\ \E c \in Range(ValuesOf(arg.rd.containers)) :
            c.EndpointId = 3 /\ c.Compose_Stack = "myapp"
    /\ result.state.native_value = "2/3"
    /\ result.state.stopped = 1

----------------------------------------------------------------------------
(* Properties of the normalization stages (SpecTick) *)

\* The fields get_endpoints declares, as far as the model carries them.
EndpointFields == {"Id", "Name", "Status", "DockerVersion", "ConfigEntryId"}

\* C27: whatever the endpoints and containers payloads lack (an endpoint
\* with an empty Snapshots list, a container without Names, no payload at
\* all), get_endpoints and get_containers complete without raising, and
\* every endpoint record holds every declared field.
C27_NormalizationNeverRaises ==
    /\ \A t \in Ticks :
          ~(/\ Raised(t)
            /\ tstages[t] # << >>
            /\ tstages[t][Len(tstages[t])] \in {"endpoints", "containers"})
    /\ "endpoints" \in DOMAIN raw_data =>
          \A eid \in DOMAIN raw_data.endpoints :
              EndpointFields \subseteq DOMAIN raw_data.endpoints[eid]

----------------------------------------------------------------------------
(* Properties of the transport's initial connectivity (SpecQuery) *)

\* C28: a freshly constructed transport is not connected, and connected
\* becomes true only in a step in which a query succeeds: a query that fails
\* while the transport is not connected (the first one, say, with HTTP 500)
\* leaves it not connected and returns None; a query that succeeds makes it
\* connected.
C28_ConnectedOnlyAfterSuccess ==
    /\ ~connected
    /\ [][ /\ (~connected /\ connected') =>
                \E t \in QueryCallers : QueryEnds(t) /\ ~Failed(qout'[t])
           /\ \A t \in QueryCallers :
                 /\ (QueryEnds(t) /\ Failed(qout'[t]) /\ ~connected) =>
                        (~connected' /\ qret'[t] = RetNone)
                 /\ (QueryEnds(t) /\ ~Failed(qout'[t])) =>
                        (connected' /\ qret'[t].kind = "data") ]_vars

\* The first query since construction has failed with HTTP 500 and returned
\* None; the transport is still not connected.
C28_Witness ==
    /\ qpc[1] = "returned"
    /\ qout[1].kind = "resp" /\ qout[1].status = 500
    /\ qret[1] = RetNone
    /\ fail_counts[qarg[1].service] = 1
    /\ \A s \in DOMAIN fail_counts : s # qarg[1].service => fail_counts[s] = 0
    /\ ~connected

----------------------------------------------------------------------------
(* Properties of the container devices (SpecDevice) *)

\* C29: for a container entity (sensor, switch, restart button) with compose
\* stack S and compose service V on endpoint E, the device is named
\* "Container: S/V", its parent is ("portainer", "stack_name_<E>_<slug(S)>"),
\* and its identifiers include
\* ("portainer", "container_<E>_<slug(S)>_<slug(V)>").
C29_DeviceInfoCompose ==
    (result # NoCall /\ arg.fn = "device_info"
        /\ truthy(arg.ent.compose_stack) /\ truthy(arg.ent.compose_service)) =>
        LET E == ToString(arg.ent.endpoint_id)
            S == arg.ent.compose_stack
            V == arg.ent.compose_service
        IN  /\ result.info.name = <<"Container: ">> \o S \o <<"/">> \o V
            /\ result.info.via_device =
                   <<DOMAIN_PORTAINER, <<"stack_name_", E, "_">> \o slug(S)>>
            /\ <<DOMAIN_PORTAINER,
                  <<"container_", E, "_">> \o slug(S) \o <<"_">> \o slug(V)>>
                   \in result.info.identifiers

\* What container_device_info builds for such an entity: the device is named
\* after the container, its parent is ("portainer", "stack_<E>_<slug(S)>"),
\* and the stack/service identifier is among its identifiers.
C29_DeviceInfoAsBuilt ==
    (result # NoCall /\ arg.fn = "device_info"
        /\ truthy(arg.ent.compose_stack) /\ truthy(arg.ent.compose_service)) =>
        LET E == ToString(arg.ent.endpoint_id)
            S == arg.ent.compose_stack
            V == arg.ent.compose_service
        IN  /\ result.info.name = <<"Container: ">> \o arg.ent.container_name
            /\ result.info.via_device =
                   <<DOMAIN_PORTAINER, <<"stack_", E, "_">> \o slug(S)>>
            /\ <<DOMAIN_PORTAINER,
                  <<"container_", E, "_">> \o slug(S) \o <<"_">> \o slug(V)>>
                   \in result.info.identifiers

----------------------------------------------------------------------------
(* Properties of the stats refresh beside the main tick (SpecOverlap) *)

\* A step of a stats coordinator's refresh
RefreshStep == \E key \in DOMAIN stats_ns : stats_ns'[key].pc # stats_ns[key].pc

\* Whatever the state of the two locks, an idle coordinator can start its
\* refresh, a waiting one can go on when the stats semaphore has a permit, and
\* one in flight completes when its request ends (here: with a 404).
RefreshCanProceed ==
    \A key \in DOMAIN stats_ns :
        /\ stats_ns[key].pc = "idle" => ENABLED RefreshStart(key)
        /\ (stats_ns[key].pc = "waiting" /\ stats_sem > 0) =>
               ENABLED RefreshAcquire(key)
        /\ stats_ns[key].pc = "inflight" =>
               ENABLED RefreshEnd(key, Resp(404, Malformed), BusyPayload)

\* C30: a stats refresh never takes the main coordinator's lock nor the
\* transport's query mutex: its steps leave both as they are, and whatever
\* their state (a main tick in flight holding both included) an idle
\* coordinator can start its refresh, a waiting one goes on as soon as the
\* stats semaphore has a permit, other refreshes being in flight or not, and
\* one in flight can complete.
C30_RefreshIndependent ==
    /\ []RefreshCanProceed
    /\ [][RefreshStep => (tick_lock' = tick_lock /\ lock' = lock)]_vars

\* A main tick is in flight and holds the coordinator's lock, its query
\* holds the transport's mutex, and the refreshes of "web" and "db" are both
\* in flight; "web" has completed a refresh before.
C30_Witness ==
    /\ tick_lock /\ tpc["scheduled"] = "get_endpoints"
    /\ lock = 1 /\ qpc[1] = "request"
    /\ \A key \in Overlapping :
          key \in DOMAIN stats_ns /\ stats_ns[key].pc = "inflight"
    /\ stats_ns[<<CONFIG_ENTRY_ID, "1:web">>].last # None
    /\ sinflight = 2

----------------------------------------------------------------------------
(* Properties of the tick lock's release (SpecCancel, SpecTickLock) *)

\* The positions of a tick between acquire() and its end
Pipeline == {"get_endpoints", "get_containers", "containers_loop", "get_stacks",
             "get_system_data"}

\* C31: a tick that acquired the lock releases it before it ends, whether
\* all stages succeed, a stage raises or the task is cancelled while a stage
\* is awaited: a tick that leaves its pipeline leaves the lock free, and the
\* lock is free whenever no tick is in its pipeline (so that a later tick
\* can acquire it).
C31_LockReleasedOnEveryExit ==
    /\ [](( \A t \in Ticks : tpc[t] \notin Pipeline ) => ~tick_lock)
    /\ [][\A t \in Ticks :
            (tpc[t] \in Pipeline /\ tpc'[t] = "returned") => ~tick_lock']_vars

\* The same for the exits the except clause and the final release cover: a
\* tick that ends ok or with UpdateFailed leaves the lock free.
C31_ReleasedUnlessCancelled ==
    [][\A t \in Ticks :
          (tpc[t] \in Pipeline /\ tpc'[t] = "returned"
              /\ tret'[t] \in {"ok", "UpdateFailed"}) => ~tick_lock']_vars

----------------------------------------------------------------------------
(* Properties of the containers stage (SpecTick) *)

\* The loop of get_containers passes over endpoint eid in this step.
LoopPass(t, eid) ==
    /\ tpc[t] = "containers_loop" /\ tpc'[t] = "containers_loop"
    /\ eid \in tloop[t] /\ eid \notin tloop'[t]

\* A containers query for endpoint eid is issued in this step.
ContainersQueried(t, eid) ==
    ContainerService(eid) \in tqueries'[t] /\ ContainerService(eid) \notin tqueries[t]

----------------------------------------------------------------------------
(* Properties of a tick without endpoints (SpecTick, SpecTickLock) *)

\* The endpoints stage of tick t has run and yielded no endpoint.
FoundNoEndpoints(t) ==
    /\ tstages[t] # << >>
    /\ tfound[t] = {}

Empty(rd, key) == key \in DOMAIN rd /\ rd[key] = EmptyDict

\* C33: when the endpoints stage of a tick yields no endpoints (an empty
\* list, or nothing because the query failed), the tick issues no containers
\* query and no stacks query, and it completes with empty endpoints,
\* containers, containers_by_name and stacks.
C33_NoEndpointsShortCircuits ==
    \A t \in Ticks :
        FoundNoEndpoints(t) =>
            /\ tqueries[t] = {"endpoints"}
            /\ tpc[t] = "returned" =>
                  /\ tret[t] = "ok"
                  /\ tstages[t] = <<"endpoints", "containers", "stacks", "system">>
                  /\ \A key \in {"endpoints", "containers", "containers_by_name",
                                  "stacks"} : Empty(raw_data, key)

----------------------------------------------------------------------------
(* Properties of the enrichment (SpecFeatures) *)

\* The custom attributes the switches ask for
Wanted(features) ==
    (IF features.feature_switch_health_check THEN {"Health_Status"} ELSE {})
    \cup (IF features.feature_switch_restart_policy THEN {"Restart_Policy"} ELSE {})
    \cup (IF features.feature_switch_update_check
             THEN {"Update_Available", "Update_Description"} ELSE {})

\* C34: the inspect document of a container is fetched only when a feature
\* is on (and then for every container); the custom attributes of the record
\* hold Health_Status iff health-check is on, Restart_Policy iff
\* restart-policy is on, Update_Available and Update_Description iff
\* update-check is on, with the values of the inspect document and of the
\* update check; _Custom_Raw is not left in the record.
C34_FeatureGating ==
    (result # NoCall /\ arg.fn = "enrich_endpoint") =>
        LET out == result.out
            on  == custom_features_enabled(arg.features)
        IN  /\ out.queries = IF on THEN {InspectService(1, cid) : cid \in DOMAIN arg.containers}
                                    ELSE {}
            /\ DOMAIN out.containers = DOMAIN arg.containers
            /\ \A cid \in DOMAIN out.containers :
                  LET c   == out.containers[cid]
                      raw == inspect_raw(arg.inspect[cid])
                  IN  /\ "_Custom_Raw" \notin DOMAIN c
                      /\ DOMAIN c._Custom = Wanted(arg.features)
                      /\ "Health_Status" \in DOMAIN c._Custom =>
                            c._Custom.Health_Status = raw.Health_Status
                      /\ "Restart_Policy" \in DOMAIN c._Custom =>
                            c._Custom.Restart_Policy = raw.Restart_Policy
                      /\ "Update_Available" \in DOMAIN c._Custom =>
                            /\ c._Custom.Update_Available = arg.update[cid].status
                            /\ c._Custom.Update_Description =
                                   arg.update[cid].status_description
                      /\ Without(c, {"_Custom"}) = Without(arg.containers[cid], {"_Custom"})

\* Restart-policy alone is on: both containers were inspected and hold
\* Restart_Policy and nothing else.
C34_Witness ==
    /\ result # NoCall /\ arg.fn = "enrich_endpoint"
    /\ arg.features = Features(FALSE, TRUE, FALSE)
    /\ DOMAIN arg.containers = {"id1", "id3"}
    /\ result.out.queries = {InspectService(1, "id1"), InspectService(1, "id3")}
    /\ \A cid \in DOMAIN result.out.containers :
          result.out.containers[cid]._Custom = [Restart_Policy |-> "always"]

----------------------------------------------------------------------------
(* Properties of the registry beside the inventory (SpecKeep) *)

\* C35: the stats registry is never pruned. A coordinator registered under a
\* key stays registered under it, as the same object, in every later step:
\* through inventory ticks in which its container is stopped, renamed or
\* absent, and through refreshes; the set of keys only grows.
C35_RegistryNeverPruned ==
    [][\A key \in DOMAIN stats_ns :
          /\ key \in DOMAIN stats_ns'
          /\ stats_ns'[key].serial = stats_ns[key].serial]_vars

\* The coordinator of "web" is registered and has refreshed without data; a
\* tick has published an inventory in which "web" is absent.
C35_Witness ==
    /\ <<CONFIG_ENTRY_ID, "1:web">> \in DOMAIN stats_ns
    /\ stats_ns[<<CONFIG_ENTRY_ID, "1:web">>].last # None
    /\ tpc["scheduled"] = "returned" /\ tret["scheduled"] = "ok"
    /\ DOMAIN raw_data.containers_by_name = {}
    /\ last_good = raw_data

----------------------------------------------------------------------------
(* Properties of the entities' creation (SpecSetup) *)

\* A batch handed to async_add_entities against the ids known before the
\* step: every entity has a unique id and a name that is not blank, none of
\* the ids is known already, no id occurs twice.
BatchIsNew(batch, known) ==
    /\ \A i \in DOMAIN batch :
          /\ batch[i].unique_id # ""
          /\ Strip(batch[i].name) # ""
          /\ batch[i].unique_id \notin known
    /\ \A i, j \in DOMAIN batch : i # j => batch[i].unique_id # batch[j].unique_id

SensorsAdded == \E h \in UpdateHandlers : upc[h] \in {"executor", "gather"} /\ upc'[h] # upc[h]
ButtonsAdded == button_created' # button_created

\* C36: over any sequence of update signals, no entity is added whose unique
\* id is already known (on the platform, in the entity registry, in the
\* created-ids set or in the alias set; for the restart buttons, in the
\* closure's set), no two entities of one batch share a unique id, and no
\* entity without unique id or name is added.
C36_NoDuplicateEntities ==
    [][/\ SensorsAdded =>
            \A i \in DOMAIN added' : BatchIsNew(added'[i], collect_existing_uids)
       /\ ButtonsAdded =>
            \A i \in DOMAIN added' : BatchIsNew(added'[i], button_created)]_vars

\* What the filter does give: a handler's batches are new against the ids
\* that were known when the handler started, and the button platform's
\* batches are new against its own set.
C36_NewWhenFiltered ==
    [][/\ \A h \in UpdateHandlers :
            upc[h] = "idle" /\ upc'[h] = "executor" =>
                LET p == upending'[h]
                IN  /\ BatchIsNew(p.base \o p.stats \o p.stack, collect_existing_uids)
       /\ ButtonsAdded =>
            \A i \in DOMAIN added' : BatchIsNew(added'[i], button_created)]_vars

----------------------------------------------------------------------------
(* Properties of a successful query (SpecQuery) *)

\* C37: a successful query to any service, reporting/get_data included, sets
\* connected to TRUE and clears the error code whatever the other services'
\* failure counters are, and resets the counter of its own service only; so
\* connected can be TRUE while the endpoints counter is 2 or more.
C37_SuccessMarksConnected ==
    [][\A t \in QueryCallers :
          QueryEnds(t) /\ QuerySucceeds(qout'[t]) =>
              /\ connected'
              /\ error' = ""
              /\ fail_counts'[qarg[t].service] = 0
              /\ \A s \in DOMAIN fail_counts :
                    s # qarg[t].service => fail_counts'[s] = fail_counts[s]]_vars

\* The update-check service has just answered while endpoints has failed
\* twice or more: the transport reports connected.
C37_Witness ==
    /\ qpc[1] = "returned"
    /\ qarg[1].service = "reporting/get_data"
    /\ QuerySucceeds(qout[1])
    /\ connected
    /\ error = ""
    /\ fail_counts["endpoints"] >= 2

----------------------------------------------------------------------------
(* Properties of the releases of the tick lock (SpecTickLock, SpecTick) *)

\* The lock is freed in this step.
Freed == tick_lock /\ ~tick_lock'

\* Tick t leaves its pipeline in this step.
Leaves(t) == tpc[t] \in Pipeline /\ tpc'[t] \notin Pipeline

\* C38: the tick lock is released only while it is held and only on behalf
\* of the tick that holds it: no tick ends with the RuntimeError of a release
\* that met an unlocked lock, a step that frees the lock is the step of the
\* one tick in its pipeline leaving it, or happens while no tick is in its
\* pipeline (async_shutdown never frees the lock from under a running
\* pipeline).
C38_ReleasedByHolderOnly ==
    /\ [](\A t \in Ticks : tret[t] # "RuntimeError")
    /\ [][Freed =>
            \/ \E t \in Ticks : Leaves(t) /\ \A u \in Ticks \ {t} : tpc[u] \notin Pipeline
            \/ \A t \in Ticks : tpc[t] \notin Pipeline]_vars

----------------------------------------------------------------------------
(* Properties of the buttons and switches of one entry (SpecControls) *)

\* The published index of containers.
PublishedByName == Get(last_good, "containers_by_name", EmptyDict)

\* C39: after any sequence of inventory ticks, renames and recreations
\* included, no two restart buttons and no two container switches of the
\* entry resolve to the same container of the published snapshot.
C39_OneControlPerContainer ==
    \A u1, u2 \in DOMAIN controls :
        (u1 # u2 /\ controls[u1].kind = controls[u2].kind) =>
            \A c \in Range(ValuesOf(PublishedByName)) :
                ~(/\ ResolvesTo(controls[u1], PublishedByName) = {c}
                  /\ ResolvesTo(controls[u2], PublishedByName) = {c})

\* Entity u still goes by the name it was created for, and the published
\* snapshot has a record under that name.
NameStays(u) ==
    /\ u = unique_id(controls[u].kind, controls[u].endpoint_id, controls[u].container_name)
    /\ ToString(controls[u].endpoint_id) \o ":" \o controls[u].container_name
          \in DOMAIN PublishedByName

\* As long as every entity finds a record under the name it was created
\* for, no two of one kind resolve to the same container.
C39_DistinctWhileNamesStay ==
    (\A u \in DOMAIN controls : NameStays(u)) => C39_OneControlPerContainer

----------------------------------------------------------------------------
(* Properties of the snapshot's references (SpecTick, SpecTickLock) *)

\* The records of table key of rd.
Records(rd, key) == Range(ValuesOf(Get(rd, key, EmptyDict)))

\* eid is a key of rd's endpoints table, with the online status.
Online(rd, eid) ==
    /\ eid \in DOMAIN Get(rd, "endpoints", EmptyDict)
    /\ rd.endpoints[eid].Status = 1

\* Every container and every stack of rd belongs to an online endpoint of
\* rd (an entry without EndpointId belongs to none).
RefersToOnline(rd) ==
    \A key \in {"containers", "containers_by_name", "stacks"} :
        \A r \in Records(rd, key) :
            "EndpointId" \in DOMAIN r /\ Online(rd, r.EndpointId)

\* The tick's stacks stage runs in this step.
StacksStage(t) == tpc[t] = "get_stacks" /\ "stacks" \in tqueries'[t] \ tqueries[t]

\* C40: after every successful tick every record of containers, of
\* containers_by_name and of stacks (native or synthesized) has an EndpointId
\* that is a key of the same snapshot's endpoints with the online status, and
\* a native stack the API returned for an endpoint that is offline or unknown
\* is not in stacks.
C40_ReferentialIntegrity ==
    /\ [](\A t \in Ticks : (tpc[t] = "returned" /\ tret[t] = "ok") => RefersToOnline(data))
    /\ [][\A t \in Ticks, out \in Answers(TickStackRows) :
            (StacksStage(t) /\ raw_data' = get_stacks(raw_data, query_return(out))) =>
                LET listed == parse_api_by_id(query_return(out))
                IN  \A sid \in DOMAIN listed :
                       ~Online(raw_data, listed[sid].EndpointId) =>
                           ToString(listed[sid].EndpointId) \o ":" \o ToString(sid)
                               \notin DOMAIN raw_data'.stacks]_vars

====
